---- MODULE Spec2Model ----
(***************************************************************************)
(* State-machine model of the character screens of degacio/dd2025:         *)
(*   - GrimoireTab          (src/unnamed/part_000, lines 893-1332)         *)
(*   - CharactersTab        (src/unnamed/part_000, lines 1679-2338 and     *)
(*                           src/app/(tabs)/characters.tsx)                *)
(*   - SpellSelectionModal  (src/unnamed/part_000, lines 69-519)           *)
(* together with the remote character store the handlers talk to.          *)
(*                                                                         *)
(* Text is modelled as a sequence of one-character strings so that         *)
(* toLowerCase, trim, includes and localeCompare compute something.        *)
(* A JavaScript null / undefined is the record  null.                      *)
(***************************************************************************)
EXTENDS Integers, Sequences, FiniteSets, TLC

VARIABLES
    tab,                     \* which screen is mounted: "grimoire", "characters" or "none"
    session,                 \* supabase.auth.getSession() yields a session
    user,                    \* CharactersTab: user state (set by checkUser)
    db,                      \* the remote store: sequence of Character records
    inflight,                \* requests issued and not yet delivered, in issue order
    alerts,                  \* the alerts raised by the last handler step
    characters,              \* useState<Character[]>
    selectedCharacter,       \* useState<... | null>
    spellSelectionCharacter, \* CharactersTab: useState<Character | null>
    loading,                 \* useState(true)
    refreshing,              \* useState(false)
    allSpells,               \* GrimoireTab: useState<Spell[]>
    selectedSpells,          \* SpellSelectionModal: Set<string> of spell ids
    searchText,              \* SpellSelectionModal
    selectedSchool,          \* SpellSelectionModal
    expandedLevels,          \* SpellSelectionModal: Set<number>
    dialog,                  \* SpellSelectionModal: the open confirmation dialog, or null
    created,                 \* number of characters the store has created
    call,                    \* a function of the modal applied on its own: name and arguments
    result                   \* the value that call returned, or null before it returns

vars == <<tab, session, user, db, inflight, alerts, characters, selectedCharacter,
          spellSelectionCharacter, loading, refreshing, allSpells,
          selectedSpells, searchText, selectedSchool, expandedLevels, dialog, created,
          call, result>>

modalVars == <<selectedSpells, searchText, selectedSchool, expandedLevels>>

(***************************************************************************)
(* Bounds of the model.                                                    *)
(***************************************************************************)
MaxSlot == 2        \* largest slot count a 'max' adjustment may reach
MaxDelta == 2       \* |delta| of an adjustment
MaxInflight == 2    \* requests in flight at once
MaxPending == 1     \* CharactersTab: handlers awaiting a result at once
MaxCreated == 1     \* sample characters created
MaxDeleted == 1     \* characters deleted

null == [null |-> TRUE]

Max(a, b) == IF a >= b THEN a ELSE b
Min(a, b) == IF a <= b THEN a ELSE b

(***************************************************************************)
(* Text.                                                                   *)
(***************************************************************************)
UpperCase == <<"A", "B", "C", "D", "E", "F", "G", "H", "I", "J", "K", "L", "M",
               "N", "O", "P", "Q", "R", "S", "T", "U", "V", "W", "X", "Y", "Z">>
LowerCase == <<"a", "b", "c", "d", "e", "f", "g", "h", "i", "j", "k", "l", "m",
               "n", "o", "p", "q", "r", "s", "t", "u", "v", "w", "x", "y", "z">>

LowerOf == [c \in {UpperCase[i] : i \in 1..Len(UpperCase)} |->
               LowerCase[CHOOSE i \in 1..Len(UpperCase) : UpperCase[i] = c]]

Lower(c) == IF c \in DOMAIN LowerOf THEN LowerOf[c] ELSE c

toLowerCase(s) == [i \in 1..Len(s) |-> Lower(s[i])]

\* String.prototype.trim: drop leading and trailing blanks
trim(s) ==
    LET solid == {i \in 1..Len(s) : s[i] # " "}
    IN  IF solid = {} THEN <<>>
        ELSE LET lo == CHOOSE i \in solid : \A j \in solid : i <= j
                 hi == CHOOSE i \in solid : \A j \in solid : j <= i
             IN  SubSeq(s, lo, hi)

\* String.prototype.includes
includes(s, q) ==
    \E i \in 0..(Len(s) - Len(q)) : SubSeq(s, i + 1, i + Len(q)) = q

\* collation order of the letters; case is a tie-break only
Alphabet == <<" ">> \o LowerCase

LetterOf == [c \in {Alphabet[i] : i \in 1..Len(Alphabet)} |->
                CHOOSE i \in 1..Len(Alphabet) : Alphabet[i] = c]

Letter(c) == LetterOf[Lower(c)]

\* lexicographic comparison of two sequences of integers: -1, 0 or 1
RECURSIVE LexCompare(_, _)
LexCompare(a, b) ==
    IF a = <<>> /\ b = <<>> THEN 0
    ELSE IF a = <<>> THEN -1
    ELSE IF b = <<>> THEN 1
    ELSE IF Head(a) < Head(b) THEN -1
    ELSE IF Head(a) > Head(b) THEN 1
    ELSE LexCompare(Tail(a), Tail(b))

\* String.prototype.localeCompare: letters first, then lower case before upper
localeCompare(a, b) ==
    LET primary == LexCompare([i \in 1..Len(a) |-> Letter(a[i])],
                              [i \in 1..Len(b) |-> Letter(b[i])])
        caseOf(s) == [i \in 1..Len(s) |-> IF s[i] = Lower(s[i]) THEN 0 ELSE 1]
    IN  IF primary # 0 THEN primary ELSE LexCompare(caseOf(a), caseOf(b))

\* Array.prototype.sort with comparator cmp: a stable sort
StableSort(seq, cmp(_, _)) ==
    LET n == Len(seq)
        rank(i) == 1 + Cardinality({j \in 1..n :
                          \/ cmp(seq[j], seq[i]) < 0
                          \/ cmp(seq[j], seq[i]) = 0 /\ j < i})
    IN  [p \in 1..n |-> seq[CHOOSE i \in 1..n : rank(i) = p]]

\* Array.prototype.filter
RECURSIVE SelectSeqBy(_, _)
SelectSeqBy(seq, keep) ==
    IF seq = <<>> THEN <<>>
    ELSE (IF Head(seq) \in keep THEN <<Head(seq)>> ELSE <<>>)
         \o SelectSeqBy(Tail(seq), keep)

Range(seq) == {seq[i] : i \in 1..Len(seq)}

\* number.toString() and parseInt() on the keys of spell_slots
LevelKeys == <<"0", "1", "2", "3", "4", "5", "6", "7", "8", "9">>
toString(level) == LevelKeys[level + 1]
parseInt(key) == CHOOSE l \in 0..9 : LevelKeys[l + 1] = key

(***************************************************************************)
(* Reference data: data/classes.json and data/spells.json.                 *)
(***************************************************************************)
Mago == <<"M", "a", "g", "o">>
Clerigo == <<"C", "l", "e", "r", "i", "g", "o">>
Guerreiro == <<"G", "u", "e", "r", "r", "e", "i", "r", "o">>
BolaDeFogo == <<"B", "o", "l", "a", " ", "d", "e", " ", "F", "o", "g", "o">>
Light == <<"L", "i", "g", "h", "t">>
Escudo == <<"E", "s", "c", "u", "d", "o">>
Bless == <<"B", "l", "e", "s", "s">>
Evo == <<"E", "v", "o">>
Abj == <<"A", "b", "j">>

\* a subclass is a bare name [str |-> ...] or an object [name |-> ...]
classesData == <<
    [name |-> Mago, spellcasting |-> TRUE,
     subclasses |-> << [str |-> <<"E", "v", "o", "c">>] >>],
    [name |-> Clerigo, spellcasting |-> TRUE,
     subclasses |-> << [name |-> <<"L", "u", "z">>] >>],
    [name |-> Guerreiro, spellcasting |-> FALSE, subclasses |-> <<>>] >>

\* two catalog spells (s3, s4) carry the same name under different ids
SpellsData == <<
    [id |-> "s1", name |-> BolaDeFogo, level |-> 3, school |-> Evo,
     classes |-> <<Mago>>, subclasses |-> <<>>],
    [id |-> "s2", name |-> Light, level |-> 0, school |-> Evo,
     classes |-> << <<" ", "c", "l", "e", "r", "i", "g", "o", " ">> >>,
     subclasses |-> <<>>],
    [id |-> "s3", name |-> Escudo, level |-> 1, school |-> Abj,
     classes |-> <<Mago>>, subclasses |-> <<>>],
    [id |-> "s4", name |-> Escudo, level |-> 1, school |-> Abj,
     classes |-> << <<"M", "A", "G", "O">> >>, subclasses |-> <<>>],
    [id |-> "s5", name |-> Bless, level |-> 1, school |-> Abj,
     classes |-> <<>>, subclasses |-> << <<"l", "u", "z">> >>] >>

\* classesData.find(cls => cls.name === class_name)
findClass(class_name) ==
    LET hits == {i \in 1..Len(classesData) : classesData[i].name = class_name}
    IN  IF hits = {} THEN null
        ELSE classesData[CHOOSE i \in hits : \A j \in hits : i <= j]

\* characterClass?.spellcasting
isSpellcaster(character) ==
    LET cls == findClass(character.class_name)
    IN  cls # null /\ cls.spellcasting

(***************************************************************************)
(* Characters of the remote store.  A known spell is a bare name           *)
(* [str |-> name] or an object [name |-> name, level |-> level];           *)
(* spell_slots maps a level key to the array [current, max].               *)
(***************************************************************************)
WellFormedPairs == {<<c, m>> : c \in 0..MaxSlot, m \in 0..MaxSlot} \ 
                   {<<c, m>> \in (0..MaxSlot) \X (0..MaxSlot) : c > m}

InitialStore(p) == <<
    [id |-> "c1", class_name |-> Mago,
     spell_slots |-> ("1" :> p @@ "3" :> <<1, 1>>),
     spells_known |-> << [str |-> BolaDeFogo] >>],
    [id |-> "c2", class_name |-> Clerigo,
     spell_slots |-> ("4" :> <<1, 1>>),
     spells_known |-> << [name |-> Light, level |-> 0] >>],
    [id |-> "c3", class_name |-> Guerreiro,
     spell_slots |-> <<>>, spells_known |-> <<>>] >>

InitialStores == {InitialStore(p) : p \in WellFormedPairs}

\* index of the character with this id in a list, 0 when absent
indexOf(list, id) ==
    LET hits == {i \in 1..Len(list) : list[i].id = id}
    IN  IF hits = {} THEN 0 ELSE CHOOSE i \in hits : \A j \in hits : i <= j

\* replaceById that overwrites every entry
replaceById_Every(list, id, updated) ==
    [i \in 1..Len(list) |-> updated]

\* prev.map(char => char.id === id ? updated : char)
replaceById(list, id, updated) ==
    [i \in 1..Len(list) |-> IF list[i].id = id THEN updated ELSE list[i]]

(***************************************************************************)
(* GrimoireTab: prepareCharacterSpells (lines 954-1011).                   *)
(***************************************************************************)
\* allSpells.find(spell => spell.name === spellName) || null
getSpellByName(spells, spellName) ==
    LET hits == {i \in 1..Len(spells) : spells[i].name = spellName}
    IN  IF hits = {} THEN null
        ELSE spells[CHOOSE i \in hits : \A j \in hits : i <= j]

\* typeof spellData === 'string' ? spellData : spellData.name
knownSpellName(spellData) ==
    IF "str" \in DOMAIN spellData THEN spellData.str ELSE spellData.name

\* line 984: the comparator of the sort within a level
compareByName_CatalogOrder(a, b) == 0

compareByName(a, b) == localeCompare(a.name, b.name)

\* line 991: Array.isArray(slots) && slots.length >= 2.  A stored value that is
\* not an array is written as the empty array: neither gets an entry
isSlotPair_ExactlyTwo(slots) == Len(slots) = 2

isSlotPair(slots) == Len(slots) >= 2
compareSlotLevel(a, b) == a.level - b.level

\* Object.entries of spell_slots: integer-like keys in ascending order
slotEntries(spell_slots) ==
    LET keys == DOMAIN spell_slots
        ord(a, b) == parseInt(a) - parseInt(b)
    IN  IF keys = {} THEN <<>>
        ELSE StableSort(CHOOSE s \in [1..Cardinality(keys) -> keys] : Range(s) = keys, ord)

RECURSIVE resolveSpells(_, _)
resolveSpells(known, spells) ==
    IF known = <<>> THEN <<>>
    ELSE LET spell == getSpellByName(spells, knownSpellName(Head(known)))
         IN  (IF spell # null THEN <<spell>> ELSE <<>>)
             \o resolveSpells(Tail(known), spells)

prepareCharacterSpells(character, spells) ==
    LET found == resolveSpells(character.spells_known, spells)
        levels == {found[i].level : i \in 1..Len(found)}
        atLevel(l) == SelectSeqBy(found, {s \in Range(found) : s.level = l})
        entries == slotEntries(character.spell_slots)
        wellFormed == SelectSeqBy(entries,
                          {k \in Range(entries) : isSlotPair(character.spell_slots[k])})
        slotInfo == [i \in 1..Len(wellFormed) |->
                        [level |-> parseInt(wellFormed[i]),
                         current |-> character.spell_slots[wellFormed[i]][1],
                         max |-> character.spell_slots[wellFormed[i]][2]]]
    IN  [character |-> character,
         spells |-> found,
         spellsByLevel |-> [l \in levels |-> StableSort(atLevel(l), compareByName)],
         spellSlots |-> StableSort(slotInfo, compareSlotLevel),
         characterClass |-> findClass(character.class_name)]

(***************************************************************************)
(* Requests to the remote store.  A request keeps what the continuation    *)
(* of its handler closes over: the id of the character it is about (cid)   *)
(* and the ids of the selectedCharacter and the spellSelectionCharacter of  *)
(* the render that issued it (sel, ssel; "none" for null).                 *)
(* The store handles a request and the response reaches the handler in one *)
(* step; requests in flight are answered in any order.                     *)
(***************************************************************************)
\* Alert.alert(title, message); accents are dropped from the texts
Alert(title, message) == [title |-> title, message |-> message]

Request(kind, cid, body, sel, ssel) ==
    [kind |-> kind, cid |-> cid, body |-> body, sel |-> sel, ssel |-> ssel]

\* removeAt that also drops the requests issued before the answered one
removeAt_DropEarlier(seq, i) == SubSeq(seq, i + 1, Len(seq))

\* the requests still in flight once request i has been answered
removeAt(seq, i) ==
    SubSeq(seq, 1, i - 1) \o SubSeq(seq, i + 1, Len(seq))

\* afterFailure that sends the failed request again
afterFailure_Retry(pending, i) == Append(removeAt(pending, i), pending[i])

\* the requests in flight once request i has failed: the handler reports the error
\* and returns
afterFailure(pending, i) == removeAt(pending, i)

\* PUT /api/characters/:id with a partial body: the stored character, updated
storePut(store, r) ==
    IF r.kind = "PUT_slots"
    THEN [store[indexOf(store, r.cid)] EXCEPT !.spell_slots = r.body]
    ELSE [store[indexOf(store, r.cid)] EXCEPT !.spells_known = r.body]

\* the store after it has handled request r successfully
storeAfter(store, r) ==
    CASE r.kind \in {"PUT_slots", "PUT_spells"} ->
             [store EXCEPT ![indexOf(store, r.cid)] = storePut(store, r)]
      [] OTHER -> store

\* a request can succeed only for a character the store holds
storeAccepts(store, r) ==
    r.kind \in {"PUT_slots", "PUT_spells"} => indexOf(store, r.cid) # 0

\* the answers a request can get: success, a non-success status, a thrown fetch
Outcomes == {"ok", "fail", "throw"}

\* the session expires
sessionExpires ==
    /\ session
    /\ session' = FALSE
    /\ alerts' = <<>>
    /\ UNCHANGED <<tab, call, result, user, db, inflight, characters, selectedCharacter,
                   spellSelectionCharacter, loading, refreshing, allSpells, modalVars, dialog, created>>

(***************************************************************************)
(* GrimoireTab (src/unnamed/part_000, lines 893-1332).                     *)
(***************************************************************************)
\* AdjustSlots without the upper clamp of 'current' (Math.min dropped)
AdjustSlots_NoUpperClamp(slots, type, delta) ==
    IF type = "current"
    THEN [slots EXCEPT ![1] = Max(0, slots[1] + delta)]
    ELSE LET newMax == Max(0, slots[2] + delta)
         IN  [slots EXCEPT ![2] = newMax, ![1] = Min(slots[1], newMax)]

\* AdjustSlots that leaves current alone when max drops (line 1039 dropped)
AdjustSlots_NoLowering(slots, type, delta) ==
    IF type = "current"
    THEN [slots EXCEPT ![1] = Max(0, Min(slots[2], slots[1] + delta))]
    ELSE [slots EXCEPT ![2] = Max(0, slots[2] + delta)]

\* lines 1033-1040: the adjusted copy of the array [current, max]
AdjustSlots(slots, type, delta) ==
    IF type = "current"
    THEN [slots EXCEPT ![1] = Max(0, Min(slots[2], slots[1] + delta))]
    ELSE LET newMax == Max(0, slots[2] + delta)
         IN  [slots EXCEPT ![2] = newMax, ![1] = Min(slots[1], newMax)]

\* lines 1029-1042: the spell_slots mapping sent to the store
updatedSlots(currentSlots, level, type, delta) ==
    [currentSlots EXCEPT ![toString(level)] =
        AdjustSlots(currentSlots[toString(level)], type, delta)]

handleCharacterPress(i) ==
    /\ tab = "grimoire" /\ ~loading /\ selectedCharacter = null
    /\ i \in 1..Len(characters)
    /\ selectedCharacter' = prepareCharacterSpells(characters[i], allSpells)
    /\ alerts' = <<>>
    /\ UNCHANGED <<tab, call, result, session, user, db, inflight, characters,
                   spellSelectionCharacter, loading, refreshing, allSpells, modalVars, dialog, created>>

\* onRequestClose / the close button of the detail modal
closeDetail ==
    /\ ~loading /\ selectedCharacter # null /\ dialog = null
    /\ selectedCharacter' = null
    /\ alerts' = <<>>
    /\ UNCHANGED <<tab, call, result, session, user, db, inflight, characters,
                   spellSelectionCharacter, loading, refreshing, allSpells, modalVars, dialog, created>>

\* updateSpellSlot computing from the mapping of the last unanswered request
updateSpellSlot_FromPending(level, type, delta) ==
    /\ tab = "grimoire" /\ ~loading /\ selectedCharacter # null
    /\ IF ~session
       THEN /\ alerts' = <<Alert("Erro", "Voce precisa estar autenticado.")>>
            /\ UNCHANGED inflight
       ELSE LET currentSlots ==
                    IF Len(inflight) > 0 /\ inflight[Len(inflight)].kind = "PUT_slots"
                    THEN inflight[Len(inflight)].body
                    ELSE selectedCharacter.character.spell_slots
            IN  IF toString(level) \in DOMAIN currentSlots
                THEN /\ Len(inflight) < MaxInflight
                     /\ AdjustSlots(currentSlots[toString(level)], type, delta)[2] <= MaxSlot
                     /\ inflight' = Append(inflight,
                            Request("PUT_slots", selectedCharacter.character.id,
                                    updatedSlots(currentSlots, level, type, delta),
                                    "none", "none"))
                     /\ alerts' = <<>>
                ELSE /\ alerts' = <<>>
                     /\ UNCHANGED inflight
    /\ UNCHANGED <<tab, call, result, session, user, db, characters, selectedCharacter,
                   spellSelectionCharacter, loading, refreshing, allSpells, modalVars, dialog, created>>

\* lines 1018-1054, up to the fetch
updateSpellSlot(level, type, delta) ==
    /\ tab = "grimoire" /\ ~loading /\ selectedCharacter # null
    /\ IF ~session
       THEN /\ alerts' = <<Alert("Erro", "Voce precisa estar autenticado.")>>
            /\ UNCHANGED inflight
       ELSE LET currentSlots == selectedCharacter.character.spell_slots
            IN  IF toString(level) \in DOMAIN currentSlots
                THEN /\ Len(inflight) < MaxInflight
                     /\ AdjustSlots(currentSlots[toString(level)], type, delta)[2] <= MaxSlot
                     /\ inflight' = Append(inflight,
                            Request("PUT_slots", selectedCharacter.character.id,
                                    updatedSlots(currentSlots, level, type, delta),
                                    "none", "none"))
                     /\ alerts' = <<>>
                ELSE /\ alerts' = <<>>
                     /\ UNCHANGED inflight
    /\ UNCHANGED <<tab, call, result, session, user, db, characters, selectedCharacter,
                   spellSelectionCharacter, loading, refreshing, allSpells, modalVars, dialog, created>>

\* lines 1056-1074: the continuation of updateSpellSlot after the fetch
updateSpellSlotResponse(i, outcome) ==
    /\ tab = "grimoire"
    /\ i \in 1..Len(inflight)
    /\ inflight[i].kind = "PUT_slots"
    /\ outcome = "ok" => storeAccepts(db, inflight[i])
    /\ inflight' = IF outcome = "ok" THEN removeAt(inflight, i)
                   ELSE afterFailure(inflight, i)
    /\ IF outcome = "ok"
       THEN /\ db' = storeAfter(db, inflight[i])
            /\ characters' = replaceById(characters, inflight[i].cid,
                                         storePut(db, inflight[i]))
            /\ selectedCharacter' =
                   prepareCharacterSpells(storePut(db, inflight[i]), allSpells)
            /\ alerts' = <<>>
       ELSE /\ alerts' = <<Alert("Erro",
                   IF outcome = "fail"
                   THEN "Nao foi possivel atualizar os espacos de magia."
                   ELSE "Erro ao atualizar espacos de magia.")>>
            /\ UNCHANGED <<db, characters, selectedCharacter>>
    /\ UNCHANGED <<tab, call, result, session, user, spellSelectionCharacter, loading,
                   refreshing, allSpells, modalVars, dialog, created>>

\* lines 904-933 and 949-952: handleRefresh, loadData and loadCharacters up to the fetch
grimoireRefresh ==
    /\ tab = "grimoire" /\ ~loading /\ ~refreshing
    /\ allSpells' = SpellsData
    /\ IF ~session
       THEN /\ refreshing' = FALSE
            /\ UNCHANGED inflight
       ELSE /\ Len(inflight) < MaxInflight
            /\ refreshing' = TRUE
            /\ inflight' = Append(inflight, Request("GET_list", "none", <<>>, "none", "none"))
    /\ alerts' = <<>>
    /\ UNCHANGED <<tab, call, result, session, user, db, characters, selectedCharacter,
                   spellSelectionCharacter, loading, modalVars, dialog, created>>

\* lines 935-947 and 912-917: the continuation of loadCharacters and loadData
grimoireLoadResponse(i, outcome) ==
    /\ tab = "grimoire"
    /\ i \in 1..Len(inflight)
    /\ inflight[i].kind = "GET_list"
    /\ inflight' = removeAt(inflight, i)
    /\ IF outcome = "ok"
       THEN characters' = SelectSeqBy(db, {c \in Range(db) : isSpellcaster(c)})
       ELSE UNCHANGED characters
    /\ loading' = FALSE
    /\ refreshing' = FALSE
    /\ alerts' = <<>>
    /\ UNCHANGED <<tab, call, result, session, user, db, selectedCharacter,
                   spellSelectionCharacter, allSpells, modalVars, dialog, created>>

Deltas == (-MaxDelta)..MaxDelta

\* the levels whose buttons the model presses
AdjustLevels == {1, 2}

\* the state after the first render and the mount effect (loadData)
InitGrimoire ==
    /\ tab = "grimoire"
    /\ session \in BOOLEAN
    /\ user = null
    /\ db \in InitialStores
    /\ inflight = IF session THEN <<Request("GET_list", "none", <<>>, "none", "none")>> ELSE <<>>
    /\ alerts = <<>>
    /\ characters = <<>>
    /\ selectedCharacter = null
    /\ spellSelectionCharacter = null
    /\ loading = session
    /\ refreshing = FALSE
    /\ allSpells = SpellsData
    /\ selectedSpells = {}
    /\ searchText = <<>>
    /\ selectedSchool = null
    /\ expandedLevels = 0..9
    /\ dialog = null
    /\ created = 0
    /\ call = null
    /\ result = null

GrimoireNext ==
    \/ \E i \in 1..Len(characters) : handleCharacterPress(i)
    \/ tab = "grimoire" /\ closeDetail
    \/ \E level \in AdjustLevels, type \in {"current", "max"}, delta \in Deltas :
          updateSpellSlot(level, type, delta)
    \/ \E i \in 1..Len(inflight), outcome \in Outcomes : updateSpellSlotResponse(i, outcome)
    \/ grimoireRefresh
    \/ \E i \in 1..Len(inflight), outcome \in Outcomes : grimoireLoadResponse(i, outcome)
    \/ tab = "grimoire" /\ sessionExpires

SpecGrimoire == InitGrimoire /\ [][GrimoireNext]_vars

(***************************************************************************)
(* SpellSelectionModal (src/unnamed/part_000, lines 69-519).               *)
(***************************************************************************)
\* the prop  characterClass  of the modal (lines 2332): the class of the
\* spell-selection character, or the empty object
emptyObject == [empty |-> TRUE]

characterClassProp ==
    IF spellSelectionCharacter # null
    THEN findClass(spellSelectionCharacter.class_name)
    ELSE emptyObject

\* lines 134-137
isClassSpell_NoTrim(spell, characterClass) ==
    \E i \in 1..Len(spell.classes) :
        /\ spell.classes[i] # <<>>
        /\ toLowerCase(spell.classes[i]) = toLowerCase(characterClass.name)

isClassSpell(spell, characterClass) ==
    \E i \in 1..Len(spell.classes) :
        /\ spell.classes[i] # <<>>
        /\ toLowerCase(trim(spell.classes[i])) = toLowerCase(characterClass.name)

\* lines 140-148
isSubclassSpell(spell, characterClass) ==
    \E i \in 1..Len(spell.subclasses), j \in 1..Len(characterClass.subclasses) :
        LET classSubclass == characterClass.subclasses[j]
        IN  IF "str" \in DOMAIN classSubclass
            THEN toLowerCase(classSubclass.str) = toLowerCase(spell.subclasses[i])
            ELSE /\ classSubclass.name # <<>>
                 /\ toLowerCase(classSubclass.name) = toLowerCase(spell.subclasses[i])

\* lines 92-100: what the custom-spell store yields.  storedSpells is
\*   [absent |-> TRUE]   no 'customSpells' item, or not on the web
\*   [invalid |-> TRUE]  an item JSON.parse rejects
\*   [spells |-> list]   an item holding a spell list
\* lines 107-126: what adapting the Livro do Jogador data yields.  adapted is
\*   [throws |-> TRUE]   require or adaptSpellsFromLivroDoJogador throws
\*   [nothing |-> TRUE]  the adapter returns undefined
\*   [spells |-> list]   the adapter returns a spell list
\* The value is [spells |-> list, from |-> tier] or [throws |-> TRUE].
loadSpells_DefaultOnly(storedSpells, adapted, defaultSpells) ==
    IF "invalid" \in DOMAIN storedSpells
    THEN [throws |-> TRUE]
    ELSE IF "spells" \in DOMAIN storedSpells /\ Len(storedSpells.spells) > 0
    THEN [spells |-> storedSpells.spells, from |-> "custom"]
    ELSE [spells |-> defaultSpells, from |-> "default"]

loadSpells(storedSpells, adapted, defaultSpells) ==
    IF "invalid" \in DOMAIN storedSpells
    THEN [throws |-> TRUE]
    ELSE IF "spells" \in DOMAIN storedSpells /\ Len(storedSpells.spells) > 0
    THEN [spells |-> storedSpells.spells, from |-> "custom"]
    ELSE IF "spells" \in DOMAIN adapted /\ Len(adapted.spells) > 0
    THEN [spells |-> adapted.spells, from |-> "adapted"]
    ELSE [spells |-> defaultSpells, from |-> "default"]

\* lines 83-86: the guard on the class
hasName(characterClass) ==
    /\ characterClass # null
    /\ "name" \in DOMAIN characterClass
    /\ characterClass.name # <<>>

\* lines 131-151: the filter on the loaded dataset
filteredSpells(characterClass, spellsData) ==
    SelectSeqBy(spellsData,
        {spell \in Range(spellsData) :
            isClassSpell(spell, characterClass) \/ isSubclassSpell(spell, characterClass)})

\* lines 81-161: which dataset the loader ends up reading
loadedFrom(characterClass, storedSpells, adapted, defaultSpells) ==
    IF ~hasName(characterClass) THEN "none"
    ELSE LET loaded == loadSpells(storedSpells, adapted, defaultSpells)
         IN  IF "throws" \in DOMAIN loaded THEN "none" ELSE loaded.from

\* lines 81-161: the catalog of the class
classSpells_NoGuard(characterClass, storedSpells, adapted, defaultSpells) ==
    LET loaded == loadSpells(storedSpells, adapted, defaultSpells)
    IN  IF "throws" \in DOMAIN loaded THEN <<>>
        ELSE IF hasName(characterClass)
        THEN filteredSpells(characterClass, loaded.spells)
        ELSE loaded.spells

classSpells(characterClass, storedSpells, adapted, defaultSpells) ==
    IF ~hasName(characterClass)
    THEN <<>>
    ELSE LET loaded == loadSpells(storedSpells, adapted, defaultSpells)
         IN  IF "throws" \in DOMAIN loaded
             THEN <<>>
             ELSE filteredSpells(characterClass, loaded.spells)

\* the datasets of the running application: no custom spells are stored and
\* the Livro do Jogador data is not bundled, so data/spells.json is read
noStoredSpells == [absent |-> TRUE]
noLivroDoJogador == [throws |-> TRUE]

\* lines 191-198: the comparator of the sort
compareLevelThenName_LevelOnly(a, b) == a.level - b.level

compareLevelThenName(a, b) ==
    IF a.level # b.level THEN a.level - b.level ELSE localeCompare(a.name, b.name)

\* lines 176-188: the filter; school is null or the selected school [str |-> name]
filtered_IgnoreSchool(catalog, text, school) ==
    SelectSeqBy(catalog,
        {spell \in Range(catalog) :
            text = <<>> \/ includes(toLowerCase(spell.name), toLowerCase(text))})

filtered(catalog, text, school) ==
    LET matchesSearch(spell) ==
            text = <<>> \/ includes(toLowerCase(spell.name), toLowerCase(text))
        matchesSchool(spell) ==
            school = null \/
                (spell.school # <<>> /\
                 toLowerCase(trim(spell.school)) = toLowerCase(school.str))
    IN  SelectSeqBy(catalog,
            {spell \in Range(catalog) : matchesSearch(spell) /\ matchesSchool(spell)})

\* lines 174-199
filteredAndSortedSpells(catalog, text, school) ==
    StableSort(filtered(catalog, text, school), compareLevelThenName)

\* lines 201-228: the rows of the list, a header [type, level, id] or a spell
\* row [type, spell, id]
RECURSIVE listItemsFrom(_, _, _)
listItemsFrom(spells, expanded, currentLevel) ==
    IF spells = <<>> THEN <<>>
    ELSE LET spell == Head(spells)
             header == IF spell.level # currentLevel
                       THEN <<[type |-> "header", level |-> spell.level,
                               id |-> <<"header", spell.level>>]>>
                       ELSE <<>>
             row == IF spell.level \in expanded
                    THEN <<[type |-> "spell", spell |-> spell, id |-> spell.id]>>
                    ELSE <<>>
         IN  header \o row \o listItemsFrom(Tail(spells), expanded, spell.level)

listItems_NoCollapsedHeaders(sortedSpells, expanded) ==
    listItemsFrom(SelectSeqBy(sortedSpells,
                      {spell \in Range(sortedSpells) : spell.level \in expanded}),
                  expanded, -1)

listItems(sortedSpells, expanded) == listItemsFrom(sortedSpells, expanded, -1)

\* lines 231-239: the updater of toggleLevelExpansion
toggledLevels(prev, level) ==
    IF level \in prev THEN prev \ {level} ELSE prev \cup {level}

\* the filtered list the modal shows in the current state
shownSpells ==
    filteredAndSortedSpells(classSpells(characterClassProp, noStoredSpells, noLivroDoJogador, SpellsData),
                            searchText, selectedSchool)

\* the spells of that list, in catalog order
shownUnsorted ==
    filtered(classSpells(characterClassProp, noStoredSpells, noLivroDoJogador, SpellsData), searchText, selectedSchool)

modalOpen == spellSelectionCharacter # null /\ dialog = null /\ ~loading

\* the texts typed into the search field
TypedTexts == {<<>>, <<"e", "s", "c">>, <<"B">>}

\* line 428: onChangeText={setSearchText}
setSearchText(text) ==
    /\ tab = "characters" /\ modalOpen
    /\ text # searchText
    /\ searchText' = text
    /\ alerts' = <<>>
    /\ UNCHANGED <<tab, call, result, session, user, db, inflight, characters,
                   selectedCharacter, spellSelectionCharacter, loading, refreshing,
                   allSpells, selectedSpells, selectedSchool, expandedLevels, dialog,
                   created>>

\* the school button selecting a school when none is selected
clearSchoolFilter_PicksSchool ==
    /\ tab = "characters" /\ modalOpen
    /\ selectedSchool' = IF selectedSchool = null THEN [str |-> Abj] ELSE null
    /\ alerts' = <<>>
    /\ UNCHANGED <<tab, call, result, session, user, db, inflight, characters,
                   selectedCharacter, spellSelectionCharacter, loading, refreshing,
                   allSpells, selectedSpells, searchText, expandedLevels, dialog,
                   created>>

\* lines 433-444: the school button, which clears the filter on either branch
clearSchoolFilter ==
    /\ tab = "characters" /\ modalOpen
    /\ selectedSchool' = null
    /\ alerts' = <<>>
    /\ UNCHANGED <<tab, call, result, session, user, db, inflight, characters,
                   selectedCharacter, spellSelectionCharacter, loading, refreshing,
                   allSpells, selectedSpells, searchText, expandedLevels, dialog,
                   created>>

\* lines 230-240 and 312-315: pressing the header of a level of the list
toggleLevelExpansion(level) ==
    /\ tab = "characters" /\ modalOpen
    /\ LET shown == shownUnsorted
       IN  \E i \in 1..Len(shown) : shown[i].level = level
    /\ expandedLevels' = toggledLevels(expandedLevels, level)
    /\ alerts' = <<>>
    /\ UNCHANGED <<tab, call, result, session, user, db, inflight, characters,
                   selectedCharacter, spellSelectionCharacter, loading, refreshing,
                   allSpells, selectedSpells, searchText, selectedSchool, dialog,
                   created>>

\* lines 242-250
toggleSpellSelection_AddOnly(spellId) ==
    /\ tab = "characters" /\ modalOpen
    /\ LET shown == shownUnsorted
       IN  \E i \in 1..Len(shown) :
               shown[i].id = spellId /\ shown[i].level \in expandedLevels
    /\ selectedSpells' = selectedSpells \cup {spellId}
    /\ alerts' = <<>>
    /\ UNCHANGED <<tab, call, result, session, user, db, inflight, characters,
                   selectedCharacter, spellSelectionCharacter, loading, refreshing,
                   allSpells, searchText, selectedSchool, expandedLevels, dialog, created>>

toggleSpellSelection(spellId) ==
    /\ tab = "characters" /\ modalOpen
    /\ LET shown == shownUnsorted
       IN  \E i \in 1..Len(shown) :
               shown[i].id = spellId /\ shown[i].level \in expandedLevels
    /\ selectedSpells' = IF spellId \in selectedSpells
                         THEN selectedSpells \ {spellId}
                         ELSE selectedSpells \cup {spellId}
    /\ alerts' = <<>>
    /\ UNCHANGED <<tab, call, result, session, user, db, inflight, characters, selectedCharacter,
                   spellSelectionCharacter, loading, refreshing, allSpells,
                   searchText, selectedSchool, expandedLevels, dialog, created>>

\* lines 252-258
handleSelectAll ==
    /\ tab = "characters" /\ modalOpen
    /\ LET shown == shownUnsorted
       IN  /\ Len(shown) > 0
           /\ selectedSpells' = IF Cardinality(selectedSpells) = Len(shown)
                                THEN {}
                                ELSE {shown[i].id : i \in 1..Len(shown)}
    /\ alerts' = <<>>
    /\ UNCHANGED <<tab, call, result, session, user, db, inflight, characters, selectedCharacter,
                   spellSelectionCharacter, loading, refreshing, allSpells,
                   searchText, selectedSchool, expandedLevels, dialog, created>>

\* line 491: the count in the label of the confirm button, 'Adicionar (n)'
confirmButtonCount == Cardinality(selectedSpells)

\* handleAddSelectedSpells taking the selected spells from the whole catalog
handleAddSelectedSpells_WholeCatalog ==
    /\ tab = "characters" /\ modalOpen
    /\ Len(shownUnsorted) > 0
    /\ IF selectedSpells = {}
       THEN /\ alerts' = <<Alert("Aviso",
                   "Selecione pelo menos uma magia para adicionar ao grimorio.")>>
            /\ UNCHANGED dialog
       ELSE /\ alerts' = <<>>
            /\ dialog' = [spellsToAdd |->
                              LET all == filteredAndSortedSpells(
                                             classSpells(characterClassProp, noStoredSpells,
                                                         noLivroDoJogador, SpellsData),
                                             <<>>, null)
                              IN  SelectSeqBy(all,
                                      {spell \in Range(all) : spell.id \in selectedSpells}),
                          character |-> spellSelectionCharacter,
                          sel |-> IF selectedCharacter = null THEN "none"
                                  ELSE selectedCharacter.id]
    /\ UNCHANGED <<tab, call, result, session, user, db, inflight, characters, selectedCharacter,
                   spellSelectionCharacter, loading, refreshing, allSpells,
                   modalVars, created>>

\* lines 260-293: the confirm button, up to the confirmation dialog.  The dialog
\* keeps what performAdd closes over: spellsToAdd and the parent's handler, that
\* is the spell-selection and selected character of the parent's render.
handleAddSelectedSpells_NoEmptyCheck ==
    /\ tab = "characters" /\ modalOpen
    /\ Len(shownUnsorted) > 0
    /\ alerts' = <<>>
    /\ dialog' = [spellsToAdd |->
                      LET shown == shownSpells
                      IN  SelectSeqBy(shown,
                              {spell \in Range(shown) : spell.id \in selectedSpells}),
                  character |-> spellSelectionCharacter,
                  sel |-> IF selectedCharacter = null THEN "none"
                          ELSE selectedCharacter.id]
    /\ UNCHANGED <<tab, call, result, session, user, db, inflight, characters,
                   selectedCharacter, spellSelectionCharacter, loading, refreshing,
                   allSpells, modalVars, created>>

handleAddSelectedSpells ==
    /\ tab = "characters" /\ modalOpen
    /\ Len(shownUnsorted) > 0
    /\ IF selectedSpells = {}
       THEN /\ alerts' = <<Alert("Aviso",
                   "Selecione pelo menos uma magia para adicionar ao grimorio.")>>
            /\ UNCHANGED dialog
       ELSE /\ alerts' = <<>>
            /\ dialog' = [spellsToAdd |->
                              LET shown == shownSpells
                              IN  SelectSeqBy(shown,
                                      {spell \in Range(shown) : spell.id \in selectedSpells}),
                          character |-> spellSelectionCharacter,
                          sel |-> IF selectedCharacter = null THEN "none"
                                  ELSE selectedCharacter.id]
    /\ UNCHANGED <<tab, call, result, session, user, db, inflight, characters, selectedCharacter,
                   spellSelectionCharacter, loading, refreshing, allSpells,
                   modalVars, created>>

\* 'Cancelar' in the confirmation dialog
cancelAdd ==
    /\ tab = "characters" /\ dialog # null
    /\ dialog' = null
    /\ alerts' = <<>>
    /\ UNCHANGED <<tab, call, result, session, user, db, inflight, characters, selectedCharacter,
                   spellSelectionCharacter, loading, refreshing, allSpells,
                   modalVars, created>>

\* lines 295-301: the close button of the modal
handleClose_KeepState ==
    /\ tab = "characters" /\ modalOpen
    /\ spellSelectionCharacter' = null
    /\ alerts' = <<>>
    /\ UNCHANGED <<tab, call, result, session, user, db, inflight, characters,
                   selectedCharacter, loading, refreshing, allSpells, modalVars,
                   dialog, created>>

handleClose ==
    /\ tab = "characters" /\ modalOpen
    /\ selectedSpells' = {}
    /\ searchText' = <<>>
    /\ selectedSchool' = null
    /\ expandedLevels' = 0..9
    /\ spellSelectionCharacter' = null
    /\ alerts' = <<>>
    /\ UNCHANGED <<tab, call, result, session, user, db, inflight, characters, selectedCharacter,
                   loading, refreshing, allSpells, dialog, created>>

(***************************************************************************)
(* CharactersTab (src/unnamed/part_000, lines 1679-2338;                   *)
(* src/app/(tabs)/characters.tsx holds a second copy of loadCharacters and *)
(* handleDeleteCharacter).                                                 *)
(***************************************************************************)
idOf(character) == IF character = null THEN "none" ELSE character.id

\* lines 1712-1726: loadCharacters up to the fetch, called from a render whose
\* selectedCharacter has id sel: <<requests in flight, loading, refreshing>>
loadCharactersStart(pending, sel, isRefreshing) ==
    IF ~session
    THEN <<pending, FALSE, FALSE>>
    ELSE <<Append(pending, Request("GET_list", "none", <<>>, sel, "none")),
           loading, isRefreshing>>

\* loadCharacters resetting the flags after a successful load only
loadCharactersResponse_NoFinally(i, outcome) ==
    /\ tab = "characters"
    /\ i \in 1..Len(inflight)
    /\ inflight[i].kind = "GET_list"
    /\ inflight' = removeAt(inflight, i)
    /\ IF outcome = "ok"
       THEN /\ characters' = db
            /\ IF inflight[i].sel # "none"
               THEN selectedCharacter' =
                        IF indexOf(db, inflight[i].sel) # 0
                        THEN db[indexOf(db, inflight[i].sel)] ELSE null
               ELSE UNCHANGED selectedCharacter
            /\ loading' = FALSE
            /\ refreshing' = FALSE
       ELSE UNCHANGED <<characters, selectedCharacter, loading, refreshing>>
    /\ alerts' = <<>>
    /\ UNCHANGED <<tab, call, result, session, user, db, spellSelectionCharacter, allSpells,
                   modalVars, dialog, created>>

\* lines 1728-1753: the continuation of loadCharacters
loadCharactersResponse(i, outcome) ==
    /\ tab = "characters"
    /\ i \in 1..Len(inflight)
    /\ inflight[i].kind = "GET_list"
    /\ inflight' = removeAt(inflight, i)
    /\ IF outcome = "ok"
       THEN /\ characters' = db
            /\ IF inflight[i].sel # "none"
               THEN selectedCharacter' =
                        IF indexOf(db, inflight[i].sel) # 0
                        THEN db[indexOf(db, inflight[i].sel)] ELSE null
               ELSE UNCHANGED selectedCharacter
       ELSE UNCHANGED <<characters, selectedCharacter>>
    /\ loading' = FALSE
    /\ refreshing' = FALSE
    /\ alerts' = <<>>
    /\ UNCHANGED <<tab, call, result, session, user, db, spellSelectionCharacter, allSpells,
                   modalVars, dialog, created>>

\* no modal covers the screen: its header buttons, cards and tab bar can be pressed
noModal == selectedCharacter = null /\ spellSelectionCharacter = null /\ ~loading

\* lines 1756-1760
handleRefresh ==
    /\ tab = "characters" /\ noModal /\ ~refreshing
    /\ Len(inflight) < MaxPending
    /\ LET started == loadCharactersStart(inflight, idOf(selectedCharacter), TRUE)
       IN  /\ inflight' = started[1]
           /\ loading' = started[2]
           /\ refreshing' = started[3]
    /\ alerts' = <<>>
    /\ UNCHANGED <<tab, call, result, session, user, db, characters, selectedCharacter,
                   spellSelectionCharacter, allSpells, modalVars, dialog, created>>

\* lines 1688-1695: the tab comes into focus; the callback is the one of the render
\* in which  user  was set, whose selectedCharacter is null
focusEffect ==
    /\ tab = "characters" /\ noModal /\ user # null
    /\ Len(inflight) < MaxPending
    /\ LET started == loadCharactersStart(inflight, "none", refreshing)
       IN  /\ inflight' = started[1]
           /\ loading' = started[2]
           /\ refreshing' = started[3]
    /\ alerts' = <<>>
    /\ UNCHANGED <<tab, call, result, session, user, db, characters, selectedCharacter,
                   spellSelectionCharacter, allSpells, modalVars, dialog, created>>

\* lines 2274-2275: a character card is pressed
openDetail(i) ==
    /\ tab = "characters" /\ noModal
    /\ i \in 1..Len(characters)
    /\ selectedCharacter' = characters[i]
    /\ alerts' = <<>>
    /\ UNCHANGED <<tab, call, result, session, user, db, inflight, characters,
                   spellSelectionCharacter, loading, refreshing, allSpells,
                   modalVars, dialog, created>>

\* lines 2043-2046 and 2280-2286
openSpellSelection(i) ==
    /\ tab = "characters" /\ noModal
    /\ i \in 1..Len(characters)
    /\ isSpellcaster(characters[i])
    /\ spellSelectionCharacter' = characters[i]
    /\ alerts' = <<>>
    /\ UNCHANGED <<tab, call, result, session, user, db, inflight, characters, selectedCharacter,
                   loading, refreshing, allSpells, modalVars, dialog, created>>

\* updatedSpells that appends every passed spell (the filter of lines 1959-1961 dropped)
updatedSpells_NoFilter(currentSpells, spells) ==
    currentSpells \o
    [i \in 1..Len(spells) |-> [name |-> spells[i].name, level |-> spells[i].level]]

\* lines 1950-1980: the spells_known list sent to the store
updatedSpells(currentSpells, spells) ==
    LET currentSpellNames == {knownSpellName(currentSpells[i]) : i \in 1..Len(currentSpells)}
        newSpells == SelectSeqBy(spells,
                         {spell \in Range(spells) : spell.name \notin currentSpellNames})
    IN  currentSpells \o
        [i \in 1..Len(newSpells) |-> [name |-> newSpells[i].name, level |-> newSpells[i].level]]

\* handleAddSpellsToGrimoire without the session check (lines 1940-1948 dropped)
handleAddSpellsToGrimoire_NoSessionCheck(character, sel, spells) ==
    LET toSend == updatedSpells(character.spells_known, spells)
    IN  IF Len(toSend) = Len(character.spells_known)
        THEN << <<Alert("Aviso",
                   "Todas as magias selecionadas ja estao no grimorio do personagem.")>>,
                <<>> >>
        ELSE << <<>>, <<Request("PUT_spells", character.id, toSend, sel, character.id)>> >>

\* lines 1926-1992: handleAddSpellsToGrimoire up to the fetch, called from a render
\* whose spell-selection character is  character  and whose selected character has
\* id sel: <<titles of the alerts raised, requests issued>>
handleAddSpellsToGrimoire(character, sel, spells) ==
    LET toSend == updatedSpells(character.spells_known, spells)
    IN  IF character = null
        THEN << <<Alert("Erro", "Nenhum personagem selecionado.")>>, <<>> >>
        ELSE IF ~session
        THEN << <<Alert("Erro", "Voce precisa estar autenticado.")>>, <<>> >>
        ELSE IF Len(toSend) = Len(character.spells_known)
        THEN << <<Alert("Aviso",
                   "Todas as magias selecionadas ja estao no grimorio do personagem.")>>,
                <<>> >>
        ELSE << <<>>, <<Request("PUT_spells", character.id, toSend, sel, character.id)>> >>

\* lines 274-277 and 295-301: 'Adicionar' in the confirmation dialog runs performAdd,
\* that is onAddSpells(spellsToAdd) and then handleClose
performAdd ==
    /\ tab = "characters" /\ dialog # null
    /\ LET called == handleAddSpellsToGrimoire(dialog.character, dialog.sel,
                                               dialog.spellsToAdd)
       IN  /\ Len(inflight) + Len(called[2]) <= MaxPending
           /\ alerts' = called[1]
           /\ inflight' = inflight \o called[2]
    /\ dialog' = null
    /\ selectedSpells' = {}
    /\ searchText' = <<>>
    /\ selectedSchool' = null
    /\ expandedLevels' = 0..9
    /\ spellSelectionCharacter' = null
    /\ UNCHANGED <<tab, call, result, session, user, db, characters, selectedCharacter,
                   loading, refreshing, allSpells, created>>

\* lines 1994-2040: the continuation of handleAddSpellsToGrimoire after the fetch
handleAddSpellsResponse(i, outcome) ==
    /\ tab = "characters"
    /\ i \in 1..Len(inflight)
    /\ inflight[i].kind = "PUT_spells"
    /\ outcome = "ok" => storeAccepts(db, inflight[i])
    /\ IF outcome = "ok"
       THEN LET r == inflight[i]
                updatedCharacter == storePut(db, r)
                started == loadCharactersStart(removeAt(inflight, i), r.sel, refreshing)
            IN  /\ db' = storeAfter(db, r)
                /\ characters' = replaceById(characters, r.cid, updatedCharacter)
                /\ selectedCharacter' = IF r.sel = r.ssel THEN updatedCharacter
                                        ELSE selectedCharacter
                /\ spellSelectionCharacter' = updatedCharacter
                /\ alerts' = <<Alert("Sucesso", "magia(s) adicionada(s) ao grimorio")>>
                /\ inflight' = started[1]
                /\ loading' = started[2]
                /\ refreshing' = started[3]
       ELSE /\ alerts' = <<Alert("Erro",
                   IF outcome = "fail"
                   THEN "Nao foi possivel adicionar as magias ao grimorio."
                   ELSE "Erro ao adicionar magias ao grimorio.")>>
            /\ inflight' = afterFailure(inflight, i)
            /\ UNCHANGED <<db, characters, selectedCharacter, spellSelectionCharacter,
                           loading, refreshing>>
    /\ UNCHANGED <<tab, call, result, session, user, allSpells, modalVars, dialog, created>>

\* the store the CharactersTab starts with
CharactersStore ==
    SelectSeqBy(InitialStore(<<1, MaxSlot>>),
        {c \in Range(InitialStore(<<1, MaxSlot>>)) : c.id # "c2"})

\* characters deleted from the store, and deletes in flight
deletes ==
    (Len(CharactersStore) + created - Len(db))
    + Cardinality({i \in 1..Len(inflight) : inflight[i].kind \in {"DELETE", "DELETE_copy"}})

\* the characters a delete button is shown for: the cards, or the open detail
deletable(i) ==
    /\ ~loading /\ dialog = null /\ spellSelectionCharacter = null
    /\ i \in 1..Len(characters)
    /\ selectedCharacter # null => selectedCharacter.id = characters[i].id

\* src/app/(tabs)/characters.tsx, lines 68-81: handleDeleteCharacter up to the call
handleDeleteCharacter(i) ==
    /\ tab = "characters" /\ deletable(i)
    /\ IF ~session \/ user = null
       THEN /\ alerts' = <<Alert("Erro",
                   "Voce precisa estar autenticado para excluir personagens.")>>
            /\ UNCHANGED inflight
       ELSE /\ Len(inflight) < MaxPending
            /\ deletes < MaxDeleted
            /\ alerts' = <<>>
            /\ inflight' = Append(inflight,
                   Request("DELETE", characters[i].id, <<>>,
                           idOf(selectedCharacter), idOf(spellSelectionCharacter)))
    /\ UNCHANGED <<tab, call, result, session, user, db, characters, selectedCharacter,
                   spellSelectionCharacter, loading, refreshing, allSpells,
                   modalVars, dialog, created>>

\* the store without the character of this id
storeDelete(store, id) == SelectSeqBy(store, {c \in Range(store) : c.id # id})

\* src/app/(tabs)/characters.tsx, lines 83-102: the continuation after the delete
handleDeleteResponse(i, outcome) ==
    /\ tab = "characters"
    /\ i \in 1..Len(inflight)
    /\ inflight[i].kind = "DELETE"
    /\ IF outcome = "ok"
       THEN LET r == inflight[i]
                started == loadCharactersStart(removeAt(inflight, i), r.sel, refreshing)
            IN  /\ db' = storeDelete(db, r.cid)
                /\ characters' = storeDelete(characters, r.cid)
                /\ selectedCharacter' = IF r.sel = r.cid THEN null ELSE selectedCharacter
                /\ spellSelectionCharacter' =
                       IF r.ssel = r.cid THEN null ELSE spellSelectionCharacter
                /\ alerts' = <<Alert("Sucesso", "Personagem excluido com sucesso!")>>
                /\ inflight' = started[1]
                /\ loading' = started[2]
                /\ refreshing' = started[3]
       ELSE /\ alerts' = <<Alert("Erro",
                   IF outcome = "fail"
                   THEN "Nao foi possivel excluir o personagem."
                   ELSE "Erro inesperado ao excluir personagem.")>>
            /\ inflight' = removeAt(inflight, i)
            /\ UNCHANGED <<db, characters, selectedCharacter, spellSelectionCharacter,
                           loading, refreshing>>
    /\ UNCHANGED <<tab, call, result, session, user, allSpells, modalVars, dialog, created>>

\* src/unnamed/part_000, lines 1762-1782: the other copy of handleDeleteCharacter
\* up to the call; user.id throws when user is null
handleDeleteCharacterCopy(i) ==
    /\ tab = "characters" /\ deletable(i)
    /\ IF ~session \/ user = null
       THEN /\ alerts' = <<Alert("Erro",
                   IF ~session
                   THEN "Voce precisa estar autenticado para excluir personagens."
                   ELSE "Erro inesperado ao excluir personagem.")>>
            /\ UNCHANGED inflight
       ELSE /\ Len(inflight) < MaxPending
            /\ deletes < MaxDeleted
            /\ alerts' = <<>>
            /\ inflight' = Append(inflight,
                   Request("DELETE_copy", characters[i].id, <<>>,
                           idOf(selectedCharacter), idOf(spellSelectionCharacter)))
    /\ UNCHANGED <<tab, call, result, session, user, db, characters, selectedCharacter,
                   spellSelectionCharacter, loading, refreshing, allSpells,
                   modalVars, dialog, created>>

\* src/unnamed/part_000, lines 1784-1839: its continuation; without an error the
\* handler reads the undeclared  response  (line 1790), which throws into the catch
handleDeleteCopyResponse(i, outcome) ==
    /\ tab = "characters"
    /\ i \in 1..Len(inflight)
    /\ inflight[i].kind = "DELETE_copy"
    /\ db' = IF outcome = "ok" THEN storeDelete(db, inflight[i].cid) ELSE db
    /\ alerts' = <<Alert("Erro",
           IF outcome = "fail"
           THEN "Nao foi possivel excluir o personagem."
           ELSE "Erro inesperado ao excluir personagem.")>>
    /\ inflight' = removeAt(inflight, i)
    /\ UNCHANGED <<tab, call, result, session, user, characters, selectedCharacter,
                   spellSelectionCharacter, loading, refreshing, allSpells,
                   modalVars, dialog, created>>

\* lines 2066-2099: the sample character, under the id the store gives it
sampleCharacter(id) ==
    [id |-> id, class_name |-> Mago,
     spell_slots |-> ("1" :> <<4, 4>> @@ "2" :> <<3, 3>> @@ "3" :> <<3, 3>> @@
                      "4" :> <<3, 3>> @@ "5" :> <<2, 2>>),
     spells_known |-> <<
        [name |-> BolaDeFogo, level |-> 3],
        [name |-> <<"M", "i", "s", "s", "e", "i", "s", " ", "M", "a", "g", "i", "c", "o", "s">>,
         level |-> 1],
        [name |-> Escudo, level |-> 1],
        [name |-> <<"R", "a", "i", "o">>, level |-> 3],
        [name |-> <<"V", "o", "o">>, level |-> 3] >>]

\* the id the store gives the n-th character it creates
newId(n) == CASE n = 1 -> "g1" [] n = 2 -> "g2" [] n = 3 -> "g3" [] OTHER -> "gN"

postsInFlight == Cardinality({i \in 1..Len(inflight) : inflight[i].kind = "POST"})

\* lines 2048-2109: createSampleCharacter up to the fetch
createSampleCharacter ==
    /\ tab = "characters" /\ noModal
    /\ IF ~session
       THEN /\ alerts' = <<Alert("Erro",
                   "Voce precisa estar autenticado para criar personagens.")>>
            /\ UNCHANGED inflight
       ELSE /\ Len(inflight) < MaxPending
            /\ created + postsInFlight < MaxCreated
            /\ alerts' = <<>>
            /\ inflight' = Append(inflight,
                   Request("POST", "none", <<>>,
                           idOf(selectedCharacter), idOf(spellSelectionCharacter)))
    /\ UNCHANGED <<tab, call, result, session, user, db, characters, selectedCharacter,
                   spellSelectionCharacter, loading, refreshing, allSpells,
                   modalVars, dialog, created>>

\* lines 2114-2154: the continuation of createSampleCharacter after the fetch
createSampleResponse(i, outcome) ==
    /\ tab = "characters"
    /\ i \in 1..Len(inflight)
    /\ inflight[i].kind = "POST"
    /\ IF outcome = "ok"
       THEN LET newCharacter == sampleCharacter(newId(created + 1))
                started == loadCharactersStart(removeAt(inflight, i),
                                               inflight[i].sel, refreshing)
            IN  /\ db' = <<newCharacter>> \o db
                /\ created' = created + 1
                /\ characters' = <<newCharacter>> \o characters
                /\ alerts' = <<Alert("Sucesso", "Personagem de exemplo criado!")>>
                /\ inflight' = started[1]
                /\ loading' = started[2]
                /\ refreshing' = started[3]
       ELSE /\ alerts' = <<Alert("Erro",
                   IF outcome = "fail"
                   THEN "Nao foi possivel criar o personagem."
                   ELSE "Erro ao criar personagem.")>>
            /\ inflight' = removeAt(inflight, i)
            /\ UNCHANGED <<db, created, characters, loading, refreshing>>
    /\ UNCHANGED <<tab, call, result, session, user, selectedCharacter, spellSelectionCharacter,
                   allSpells, modalVars, dialog>>

\* the state after the first render and checkUser (lines 1697-1710)
InitCharacters ==
    /\ tab = "characters"
    /\ session \in BOOLEAN
    /\ user = IF session THEN [id |-> "u1"] ELSE null
    /\ db = CharactersStore
    /\ inflight = IF session
                  THEN <<Request("GET_list", "none", <<>>, "none", "none")>> ELSE <<>>
    /\ alerts = <<>>
    /\ characters = <<>>
    /\ selectedCharacter = null
    /\ spellSelectionCharacter = null
    /\ loading = session
    /\ refreshing = FALSE
    /\ allSpells = <<>>
    /\ selectedSpells = {}
    /\ searchText = <<>>
    /\ selectedSchool = null
    /\ expandedLevels = 0..9
    /\ dialog = null
    /\ created = 0
    /\ call = null
    /\ result = null

SpellIds == {SpellsData[i].id : i \in 1..Len(SpellsData)}

CharactersNext ==
    \/ \E i \in 1..Len(inflight), outcome \in Outcomes : loadCharactersResponse(i, outcome)
    \/ handleRefresh
    \/ focusEffect
    \/ \E i \in 1..Len(characters) : openDetail(i)
    \/ tab = "characters" /\ closeDetail
    \/ \E i \in 1..Len(characters) : openSpellSelection(i)
    \/ \E spellId \in SpellIds : toggleSpellSelection(spellId)
    \/ handleSelectAll
    \/ handleAddSelectedSpells
    \/ cancelAdd
    \/ performAdd
    \/ handleClose
    \/ \E i \in 1..Len(inflight), outcome \in Outcomes : handleAddSpellsResponse(i, outcome)
    \/ \E i \in 1..Len(characters) : handleDeleteCharacter(i)
    \/ \E i \in 1..Len(inflight), outcome \in Outcomes : handleDeleteResponse(i, outcome)
    \/ \E i \in 1..Len(characters) : handleDeleteCharacterCopy(i)
    \/ \E i \in 1..Len(inflight), outcome \in Outcomes : handleDeleteCopyResponse(i, outcome)
    \/ createSampleCharacter
    \/ \E i \in 1..Len(inflight), outcome \in Outcomes : createSampleResponse(i, outcome)
    \/ tab = "characters" /\ sessionExpires

SpecCharacters == InitCharacters /\ [][CharactersNext]_vars

(***************************************************************************)
(* CharactersTab with the spell selection modal in use: the list is loaded, *)
(* the modal is opened, searched, collapsed, selected from, committed and   *)
(* closed, and characters are deleted.                                      *)
(***************************************************************************)
ModalNext ==
    \/ \E i \in 1..Len(inflight), outcome \in Outcomes : loadCharactersResponse(i, outcome)
    \/ \E i \in 1..Len(characters) : openSpellSelection(i)
    \/ \E text \in TypedTexts : setSearchText(text)
    \/ clearSchoolFilter
    \/ \E level \in 0..9 : toggleLevelExpansion(level)
    \/ \E spellId \in SpellIds : toggleSpellSelection(spellId)
    \/ handleSelectAll
    \/ handleAddSelectedSpells
    \/ cancelAdd
    \/ performAdd
    \/ handleClose
    \/ \E i \in 1..Len(inflight), outcome \in Outcomes : handleAddSpellsResponse(i, outcome)
    \/ \E i \in 1..Len(characters) : handleDeleteCharacter(i)
    \/ \E i \in 1..Len(inflight), outcome \in Outcomes : handleDeleteResponse(i, outcome)
    \/ \E i \in 1..Len(characters) : handleDeleteCharacterCopy(i)
    \/ \E i \in 1..Len(inflight), outcome \in Outcomes : handleDeleteCopyResponse(i, outcome)

SpecModal == InitCharacters /\ [][ModalNext]_vars

\* either screen
(***************************************************************************)
(* The memoised functions of SpellSelectionModal applied on their own      *)
(* (src/unnamed/part_000, lines 81-228): classSpells, filteredAndSorted-   *)
(* Spells and listItems, each on arguments drawn from a bounded set.       *)
(***************************************************************************)
MaxCatalog == 4

Zap == <<"Z", "a", "p">>
Cura == <<"C", "u", "r", "a">>

\* a custom spell list as the spell editor stores it
CustomSpells == <<
    [id |-> "k1", name |-> Zap, level |-> 2, school |-> Evo,
     classes |-> << <<"m", "a", "g", "o", " ">>, <<>> >>, subclasses |-> <<>>],
    [id |-> "k2", name |-> Cura, level |-> 1, school |-> Abj,
     classes |-> << <<" ">> >>, subclasses |-> << <<"L", "U", "Z">>, <<>> >>] >>

\* a spell list as adaptSpellsFromLivroDoJogador returns it
AdaptedSpells == <<
    [id |-> "a1", name |-> Light, level |-> 0, school |-> Evo,
     classes |-> <<Mago, Clerigo>>, subclasses |-> <<>>],
    [id |-> "a2", name |-> BolaDeFogo, level |-> 3, school |-> Evo,
     classes |-> <<Guerreiro>>, subclasses |-> << <<"e", "V", "O", "C">> >>] >>

\* the classes the modal can be given: none, the empty object of line 2332, a
\* class without a name, the classes of data/classes.json and a class whose
\* subclasses have empty names
ClassInputs ==
    {null, emptyObject, [name |-> <<>>, spellcasting |-> TRUE, subclasses |-> <<>>],
     [name |-> <<"B", "a", "r", "d", "o">>, spellcasting |-> TRUE,
      subclasses |-> << [str |-> <<>>], [name |-> <<>>] >>]}
    \cup Range(classesData)

StoredInputs ==
    {[absent |-> TRUE], [invalid |-> TRUE], [spells |-> <<>>], [spells |-> CustomSpells]}

AdaptedInputs ==
    {[throws |-> TRUE], [nothing |-> TRUE], [spells |-> <<>>], [spells |-> AdaptedSpells]}

ClassSpellsCalls ==
    {[fn |-> "classSpells", characterClass |-> c, storedSpells |-> st, adapted |-> ad] :
        c \in ClassInputs, st \in StoredInputs, ad \in AdaptedInputs}

\* catalog spells for the filter: names that differ in case only, a school
\* written with padding and in upper case, a spell without a school
FilterPool ==
    {[id |-> "f1", name |-> BolaDeFogo, level |-> 3, school |-> Evo,
      classes |-> <<Mago>>, subclasses |-> <<>>],
     [id |-> "f2", name |-> <<"e", "s", "c", "u", "d", "o">>, level |-> 1,
      school |-> <<" ", "A", "B", "J", " ">>,
      classes |-> <<Mago>>, subclasses |-> <<>>],
     [id |-> "f3", name |-> Escudo, level |-> 1, school |-> <<>>,
      classes |-> <<Mago>>, subclasses |-> <<>>],
     [id |-> "f4", name |-> Bless, level |-> 0, school |-> Abj,
      classes |-> <<Mago>>, subclasses |-> <<>>]}

\* every catalog of at most MaxCatalog distinct pool spells, in every order
Catalogs ==
    {c \in UNION {[1..n -> FilterPool] : n \in 0..MaxCatalog} :
        \A i, j \in DOMAIN c : i # j => c[i] # c[j]}

SearchTexts == {<<>>, <<"E">>, <<"d", "o">>, <<"b", "O">>, <<"z">>}

Schools == {null, [str |-> <<"a", "b", "j">>], [str |-> <<"E", "V", "O">>]}

FilterCalls ==
    {[fn |-> "filteredAndSortedSpells", classSpells |-> c, searchText |-> t,
      selectedSchool |-> sc] : c \in Catalogs, t \in SearchTexts, sc \in Schools}

\* the lists listItems is given: sorted filtered lists
SortedLists == {filteredAndSortedSpells(c, <<>>, null) : c \in Catalogs}

ExpandedInputs == (SUBSET {0, 1, 3}) \cup {0..9}

ListItemsCalls ==
    {[fn |-> "listItems", filteredAndSortedSpells |-> l, expandedLevels |-> e] :
        l \in SortedLists, e \in ExpandedInputs}

Unknown == <<"U", "n", "k">>

\* known-spell entries: bare names and objects, one naming no catalog spell,
\* one without a name
KnownPool ==
    {[str |-> BolaDeFogo], [name |-> Escudo, level |-> 1], [str |-> Bless],
     [str |-> Unknown], [name |-> Light, level |-> 0], [name |-> <<>>, level |-> 2]}

MaxKnown == 3

KnownInputs == UNION {[1..n -> KnownPool] : n \in 0..MaxKnown}

\* stored slot values: arrays of 0 to 3 numbers
SlotValues == {<<>>, <<1>>, <<1, 2>>, <<0, 1, 5>>}

SlotInputs == UNION {[keys -> SlotValues] : keys \in SUBSET {"1", "2", "3"}}

characterInput(known, slots) ==
    [id |-> "c1", class_name |-> Mago, spell_slots |-> slots, spells_known |-> known]

PrepareCalls ==
    {[fn |-> "prepareCharacterSpells",
      character |-> characterInput(known, [k \in {"1", "3"} |-> <<1, 2>>])] :
        known \in KnownInputs}
    \cup
    {[fn |-> "prepareCharacterSpells",
      character |-> characterInput(<<[str |-> BolaDeFogo]>>, slots)] :
        slots \in SlotInputs}

returned == "returned" \in DOMAIN result

applyClassSpells ==
    /\ tab = "none" /\ call.fn = "classSpells" /\ ~returned
    /\ result' = [returned |-> classSpells(call.characterClass, call.storedSpells,
                                           call.adapted, SpellsData),
                  from |-> loadedFrom(call.characterClass, call.storedSpells,
                                      call.adapted, SpellsData)]
    /\ UNCHANGED <<tab, call, session, user, db, inflight, alerts, characters,
                   selectedCharacter, spellSelectionCharacter, loading, refreshing,
                   allSpells, modalVars, dialog, created>>

applyFilteredAndSortedSpells ==
    /\ tab = "none" /\ call.fn = "filteredAndSortedSpells" /\ ~returned
    /\ result' = [returned |-> filteredAndSortedSpells(call.classSpells, call.searchText,
                                                       call.selectedSchool),
                  filtered |-> filtered(call.classSpells, call.searchText,
                                        call.selectedSchool)]
    /\ UNCHANGED <<tab, call, session, user, db, inflight, alerts, characters,
                   selectedCharacter, spellSelectionCharacter, loading, refreshing,
                   allSpells, modalVars, dialog, created>>

applyListItems ==
    /\ tab = "none" /\ call.fn = "listItems" /\ ~returned
    /\ result' = [returned |-> listItems(call.filteredAndSortedSpells, call.expandedLevels)]
    /\ UNCHANGED <<tab, call, session, user, db, inflight, alerts, characters,
                   selectedCharacter, spellSelectionCharacter, loading, refreshing,
                   allSpells, modalVars, dialog, created>>

\* lines 958-1011, with allSpells loaded from data/spells.json
applyPrepareCharacterSpells ==
    /\ tab = "none" /\ call.fn = "prepareCharacterSpells" /\ ~returned
    /\ result' = [returned |-> prepareCharacterSpells(call.character, SpellsData)]
    /\ UNCHANGED <<tab, call, session, user, db, inflight, alerts, characters,
                   selectedCharacter, spellSelectionCharacter, loading, refreshing,
                   allSpells, modalVars, dialog, created>>

\* toggleLevelExpansion(level) on a rendered list: the state is updated and
\* the list is computed again
applyToggleLevelExpansion(level) ==
    /\ tab = "none" /\ call.fn = "listItems" /\ returned
    /\ call' = [call EXCEPT !.expandedLevels = toggledLevels(@, level)]
    /\ result' = [returned |-> listItems(call.filteredAndSortedSpells,
                                         call'.expandedLevels)]
    /\ UNCHANGED <<tab, session, user, db, inflight, alerts, characters,
                   selectedCharacter, spellSelectionCharacter, loading, refreshing,
                   allSpells, modalVars, dialog, created>>

InitFunctions ==
    /\ tab = "none"
    /\ session = TRUE
    /\ user = null
    /\ db = <<>>
    /\ inflight = <<>>
    /\ alerts = <<>>
    /\ characters = <<>>
    /\ selectedCharacter = null
    /\ spellSelectionCharacter = null
    /\ loading = FALSE
    /\ refreshing = FALSE
    /\ allSpells = <<>>
    /\ selectedSpells = {}
    /\ searchText = <<>>
    /\ selectedSchool = null
    /\ expandedLevels = 0..9
    /\ dialog = null
    /\ created = 0
    /\ call \in ClassSpellsCalls \cup FilterCalls \cup ListItemsCalls \cup PrepareCalls
    /\ result = null

FunctionsNext ==
    \/ applyClassSpells
    \/ applyFilteredAndSortedSpells
    \/ applyListItems
    \/ applyPrepareCharacterSpells
    \/ \E level \in {0, 1, 3} : applyToggleLevelExpansion(level)

SpecFunctions == InitFunctions /\ [][FunctionsNext]_vars

(***************************************************************************)
(* CharactersTab: the share token of a character (src/unnamed/part_000,    *)
(* lines 1842-1924).  The handlers are the onGenerateToken and             *)
(* onRevokeToken of the detail view (2320-2327), which calls them with the *)
(* id of the character it shows.  result holds what the last call that has *)
(* ended returned or that it threw.                                        *)
(***************************************************************************)
\* a token or an expiry the store hands out
Str(text) == [str |-> text]

\* { ...char, share_token: token, token_expires_at: expires }
withToken(char, token, expires) ==
    [f \in DOMAIN char \cup {"share_token", "token_expires_at"} |->
        IF f = "share_token" THEN token
        ELSE IF f = "token_expires_at" THEN expires
        ELSE char[f]]

\* the bodies of the store's answers to POST /api/characters/:id/share
ShareAnswers ==
    {[share_token |-> Str("t1"), expires_at |-> Str("e1")],
     [share_token |-> Str("t2"), expires_at |-> Str("e2")]}

\* the store at the first render: c1 is not shared, c3 is
TokenStore ==
    [i \in 1..Len(CharactersStore) |->
        IF CharactersStore[i].id = "c3"
        THEN withToken(CharactersStore[i], Str("t1"), Str("e1"))
        ELSE withToken(CharactersStore[i], null, null)]

\* the detail view is showing the character with this id and can be pressed
detailShows(characterId) ==
    /\ tab = "characters" /\ ~loading /\ dialog = null
    /\ spellSelectionCharacter = null
    /\ selectedCharacter # null
    /\ selectedCharacter.id = characterId

\* lines 1842-1856 and 1886-1900: either handler up to its fetch
shareStart(kind, characterId) ==
    /\ detailShows(characterId)
    /\ IF ~session
       THEN /\ result' = [throws |-> TRUE]
            /\ UNCHANGED inflight
       ELSE /\ Len(inflight) < MaxInflight
            /\ inflight' = Append(inflight,
                   Request(kind, characterId, <<>>, idOf(selectedCharacter), "none"))
            /\ UNCHANGED result
    /\ alerts' = <<>>
    /\ UNCHANGED <<tab, call, session, user, db, characters, selectedCharacter,
                   spellSelectionCharacter, loading, refreshing, allSpells, modalVars,
                   dialog, created>>

\* lines 1842-1856
handleGenerateToken(characterId) == shareStart("POST_share", characterId)

\* lines 1886-1900
handleRevokeToken(characterId) == shareStart("DELETE_share", characterId)

\* shareResponse updating the list only
shareResponse_ListOnly(i, outcome, kind, token, expires, value) ==
    /\ tab = "characters"
    /\ i \in 1..Len(inflight)
    /\ inflight[i].kind = kind
    /\ outcome = "ok" => indexOf(db, inflight[i].cid) # 0
    /\ inflight' = removeAt(inflight, i)
    /\ IF outcome = "ok"
       THEN /\ db' = replaceById(db, inflight[i].cid,
                         withToken(db[indexOf(db, inflight[i].cid)], token, expires))
            /\ characters' =
                   [k \in 1..Len(characters) |->
                       IF characters[k].id = inflight[i].cid
                       THEN withToken(characters[k], token, expires)
                       ELSE characters[k]]
            /\ UNCHANGED selectedCharacter
            /\ result' = [returned |-> value]
       ELSE /\ result' = [throws |-> TRUE]
            /\ UNCHANGED <<db, characters, selectedCharacter>>
    /\ alerts' = <<>>
    /\ UNCHANGED <<tab, call, session, user, spellSelectionCharacter, loading,
                   refreshing, allSpells, modalVars, dialog, created>>

\* lines 1857-1883 and 1901-1923: either handler after its fetch.  The test of
\* selectedCharacter?.id reads the render that made the call (sel); the two
\* functional updates read the state of the moment.
shareResponse(i, outcome, kind, token, expires, value) ==
    /\ tab = "characters"
    /\ i \in 1..Len(inflight)
    /\ inflight[i].kind = kind
    /\ outcome = "ok" => indexOf(db, inflight[i].cid) # 0
    /\ inflight' = removeAt(inflight, i)
    /\ IF outcome = "ok"
       THEN /\ db' = replaceById(db, inflight[i].cid,
                         withToken(db[indexOf(db, inflight[i].cid)], token, expires))
            /\ characters' =
                   [k \in 1..Len(characters) |->
                       IF characters[k].id = inflight[i].cid
                       THEN withToken(characters[k], token, expires)
                       ELSE characters[k]]
            /\ selectedCharacter' =
                   IF inflight[i].sel = inflight[i].cid /\ selectedCharacter # null
                   THEN withToken(selectedCharacter, token, expires)
                   ELSE selectedCharacter
            /\ result' = [returned |-> value]
       ELSE /\ result' = [throws |-> TRUE]
            /\ UNCHANGED <<db, characters, selectedCharacter>>
    /\ alerts' = <<>>
    /\ UNCHANGED <<tab, call, session, user, spellSelectionCharacter, loading,
                   refreshing, allSpells, modalVars, dialog, created>>

\* lines 1857-1883
handleGenerateTokenResponse(i, outcome, answer) ==
    shareResponse(i, outcome, "POST_share", answer.share_token, answer.expires_at, answer)

\* lines 1901-1923: the promise resolves to undefined
handleRevokeTokenResponse(i, outcome) ==
    shareResponse(i, outcome, "DELETE_share", null, null, [undefined |-> TRUE])

InitTokens ==
    /\ tab = "characters"
    /\ session \in BOOLEAN
    /\ user = IF session THEN [id |-> "u1"] ELSE null
    /\ db = TokenStore
    /\ inflight = IF session
                  THEN <<Request("GET_list", "none", <<>>, "none", "none")>> ELSE <<>>
    /\ alerts = <<>>
    /\ characters = <<>>
    /\ selectedCharacter = null
    /\ spellSelectionCharacter = null
    /\ loading = session
    /\ refreshing = FALSE
    /\ allSpells = <<>>
    /\ selectedSpells = {}
    /\ searchText = <<>>
    /\ selectedSchool = null
    /\ expandedLevels = 0..9
    /\ dialog = null
    /\ created = 0
    /\ call = null
    /\ result = null

TokensNext ==
    \/ \E i \in 1..Len(inflight), outcome \in Outcomes : loadCharactersResponse(i, outcome)
    \/ handleRefresh
    \/ \E i \in 1..Len(characters) : openDetail(i)
    \/ tab = "characters" /\ closeDetail
    \/ \E i \in 1..Len(characters) : handleGenerateToken(characters[i].id)
    \/ \E i \in 1..Len(inflight), outcome \in Outcomes, answer \in ShareAnswers :
          handleGenerateTokenResponse(i, outcome, answer)
    \/ \E i \in 1..Len(characters) : handleRevokeToken(characters[i].id)
    \/ \E i \in 1..Len(inflight), outcome \in Outcomes : handleRevokeTokenResponse(i, outcome)
    \/ tab = "characters" /\ sessionExpires

SpecTokens == InitTokens /\ [][TokensNext]_vars

Init == InitGrimoire \/ InitCharacters
Next == GrimoireNext \/ CharactersNext
Spec == Init /\ [][Next]_vars

(***************************************************************************)
(* Both screens with every awaited fetch of the character list returning   *)
(* or throwing: a GET in flight is eventually answered.                    *)
(***************************************************************************)
listAnswered ==
    \E i \in 1..Len(inflight), outcome \in Outcomes :
        \/ grimoireLoadResponse(i, outcome)
        \/ loadCharactersResponse(i, outcome)

SpecRefresh == Init /\ [][Next]_vars /\ WF_vars(listAnswered)

(***************************************************************************)
(* Properties.                                                             *)
(***************************************************************************)
\* the pair of the displayed character at a level, and the pair last sent
shownPair(level) == selectedCharacter.character.spell_slots[toString(level)]
sentPair(level) == inflight'[Len(inflight')].body[toString(level)]

\* updateSpellSlot reaches its fetch: a session and a stored pair at the level
sendsUpdate(level, type, delta) ==
    /\ updateSpellSlot(level, type, delta)
    /\ session
    /\ toString(level) \in DOMAIN selectedCharacter.character.spell_slots

\* C1: updateSpellSlot(level, 'current', delta) sends clamp(current + delta, 0, max)
\* as the current value of the level, a value in [0, max], and sends the max of the
\* level unchanged.
C1_CurrentClamped ==
    [][\A level \in AdjustLevels, delta \in Deltas :
          sendsUpdate(level, "current", delta) =>
              /\ Len(inflight') = Len(inflight) + 1
              /\ sentPair(level)[1] =
                     (IF shownPair(level)[1] + delta < 0 THEN 0
                      ELSE IF shownPair(level)[1] + delta > shownPair(level)[2]
                           THEN shownPair(level)[2]
                           ELSE shownPair(level)[1] + delta)
              /\ sentPair(level)[1] \in 0..shownPair(level)[2]
              /\ sentPair(level)[2] = shownPair(level)[2]]_vars

\* a request in flight lowers the displayed current (at least 1) to 0, or raises it
\* to the max it was below, with the max as displayed
C1_Witness ==
    /\ tab = "grimoire" /\ selectedCharacter # null
    /\ \E i \in 1..Len(inflight), k \in DOMAIN selectedCharacter.character.spell_slots :
          /\ inflight[i].kind = "PUT_slots"
          /\ inflight[i].cid = selectedCharacter.character.id
          /\ selectedCharacter.character.spell_slots[k] = <<1, MaxSlot>>
          /\ inflight[i].body[k] \in {<<0, MaxSlot>>, <<MaxSlot, MaxSlot>>}

\* C2: updateSpellSlot(level, 'max', delta) sends max(old max + delta, 0) as the max
\* and min(old current, new max) as the current, so the pair sent has
\* current <= max and a max that is not negative.
C2_MaxAdjusted ==
    [][\A level \in AdjustLevels, delta \in Deltas :
          sendsUpdate(level, "max", delta) =>
              /\ Len(inflight') = Len(inflight) + 1
              /\ sentPair(level)[2] =
                     (IF shownPair(level)[2] + delta > 0
                      THEN shownPair(level)[2] + delta ELSE 0)
              /\ sentPair(level)[2] >= 0
              /\ sentPair(level)[1] =
                     (IF shownPair(level)[1] < sentPair(level)[2]
                      THEN shownPair(level)[1] ELSE sentPair(level)[2])
              /\ sentPair(level)[1] <= sentPair(level)[2]]_vars

\* a request in flight lowers the max below the displayed current and the current
\* with it
C2_Witness ==
    /\ tab = "grimoire" /\ selectedCharacter # null
    /\ \E i \in 1..Len(inflight), k \in DOMAIN selectedCharacter.character.spell_slots :
          /\ inflight[i].kind = "PUT_slots"
          /\ inflight[i].cid = selectedCharacter.character.id
          /\ selectedCharacter.character.spell_slots[k] = <<MaxSlot, MaxSlot>>
          /\ inflight[i].body[k] = <<MaxSlot - 1, MaxSlot - 1>>

slotsInRange(character) ==
    \A k \in DOMAIN character.spell_slots :
        /\ 0 <= character.spell_slots[k][1]
        /\ character.spell_slots[k][1] <= character.spell_slots[k][2]

\* C3: from a store whose pairs all satisfy 0 <= current <= max, every pair of the
\* displayed character and of the character list satisfies 0 <= current <= max,
\* whatever updateSpellSlot calls were made and however their responses arrived.
C3_SlotsStayInRange ==
    tab = "grimoire" =>
        /\ \A i \in 1..Len(characters) : slotsInRange(characters[i])
        /\ selectedCharacter # null => slotsInRange(selectedCharacter.character)

\* list and detail show the pair [0, 0] for c1 while a request carrying [MaxSlot,
\* MaxSlot], which no single adjustment of [0, 0] yields, is still in flight: a later
\* request was answered first and applied
C3_Witness ==
    /\ tab = "grimoire" /\ selectedCharacter # null
    /\ selectedCharacter.character.id = "c1"
    /\ selectedCharacter.character.spell_slots["1"] = <<0, 0>>
    /\ \E i \in 1..Len(characters) :
          characters[i].id = "c1" /\ characters[i].spell_slots["1"] = <<0, 0>>
    /\ \E i \in 1..Len(inflight) :
          /\ inflight[i].kind = "PUT_slots" /\ inflight[i].cid = "c1"
          /\ inflight[i].body["1"] = <<MaxSlot, MaxSlot>>

\* the requests in flight are those of before without request i
answered(i) ==
    /\ Len(inflight') = Len(inflight) - 1
    /\ \A j \in 1..Len(inflight') : inflight'[j] = inflight[IF j < i THEN j ELSE j + 1]

\* C4: when the update request of updateSpellSlot or of handleAddSpellsToGrimoire
\* gets a non-success response or throws, the character list, the selected
\* character and the spell-selection character are unchanged, exactly one alert is
\* raised and it is an error alert, and no request is issued.
C4_FailureLeavesState ==
    [][\A i \in 1..Len(inflight), outcome \in {"fail", "throw"} :
          (updateSpellSlotResponse(i, outcome) \/ handleAddSpellsResponse(i, outcome)) =>
              /\ characters' = characters
              /\ selectedCharacter' = selectedCharacter
              /\ spellSelectionCharacter' = spellSelectionCharacter
              /\ Len(alerts') = 1 /\ alerts'[1].title = "Erro"
              /\ answered(i)]_vars

\* the add-spells request has just been refused while the session is live
C4_Witness ==
    /\ tab = "characters" /\ session
    /\ alerts = <<Alert("Erro", "Nao foi possivel adicionar as magias ao grimorio.")>>
    /\ inflight = <<>>
    /\ indexOf(db, "c1") # 0
    /\ \E i \in 1..Len(characters) : characters[i] = db[indexOf(db, "c1")]

\* C5: a successful updateSpellSlot response replaces the list entry of the
\* request's character by the character the store returned (the stored character
\* carrying the slots that were sent), leaves every other entry as it was, and
\* rebuilds the detail from the returned character, slot summary included.
C5_SuccessRefreshesListAndDetail ==
    [][\A i \in 1..Len(inflight) :
          updateSpellSlotResponse(i, "ok") =>
              LET r == inflight[i]
                  stored == db'[indexOf(db', r.cid)]
              IN  /\ stored.spell_slots = r.body
                  /\ Len(characters') = Len(characters)
                  /\ \A j \in 1..Len(characters) :
                        characters'[j] = IF characters[j].id = r.cid
                                         THEN stored ELSE characters[j]
                  /\ selectedCharacter'.character = stored
                  /\ Len(selectedCharacter'.spellSlots) = Cardinality(DOMAIN r.body)
                  /\ \A j \in 1..Len(selectedCharacter'.spellSlots) :
                        LET e == selectedCharacter'.spellSlots[j]
                        IN  r.body[toString(e.level)] = <<e.current, e.max>>]_vars

\* the list entry and the rebuilt detail of c1 carry [2, 2] at level 1, next to the
\* untouched entry of c2, while a request carrying [0, 1], which no single
\* adjustment of [2, 2] yields, is still in flight
C5_Witness ==
    /\ tab = "grimoire" /\ selectedCharacter # null
    /\ selectedCharacter.character.id = "c1"
    /\ selectedCharacter.spellSlots = <<[level |-> 1, current |-> 2, max |-> 2],
                                        [level |-> 3, current |-> 1, max |-> 1]>>
    /\ Len(characters) = 2
    /\ characters[1] = selectedCharacter.character
    /\ characters[2].id = "c2" /\ characters[2].spell_slots["4"] = <<1, 1>>
    /\ \E i \in 1..Len(inflight) :
          /\ inflight[i].kind = "PUT_slots" /\ inflight[i].cid = "c1"
          /\ inflight[i].body["1"] = <<0, 1>>

\* C6: without a session updateSpellSlot, handleAddSpellsToGrimoire,
\* handleDeleteCharacter and createSampleCharacter raise one error alert, issue no
\* request and change neither the store, the character list nor the selected
\* character; handleAddSpellsToGrimoire runs inside performAdd, whose handleClose
\* then clears the spell-selection character as it does on every path.
C6_NoSessionNoRequest ==
    [][~session =>
          /\ \A level \in AdjustLevels, type \in {"current", "max"}, delta \in Deltas :
                updateSpellSlot(level, type, delta) =>
                    /\ Len(alerts') = 1 /\ alerts'[1].title = "Erro"
                    /\ UNCHANGED <<inflight, db, characters, selectedCharacter,
                                   spellSelectionCharacter>>
          /\ performAdd =>
                /\ Len(alerts') = 1 /\ alerts'[1].title = "Erro"
                /\ UNCHANGED <<inflight, db, characters, selectedCharacter>>
          /\ \A i \in 1..Len(characters) :
                handleDeleteCharacter(i) =>
                    /\ Len(alerts') = 1 /\ alerts'[1].title = "Erro"
                    /\ UNCHANGED <<inflight, db, characters, selectedCharacter,
                                   spellSelectionCharacter>>
          /\ createSampleCharacter =>
                /\ Len(alerts') = 1 /\ alerts'[1].title = "Erro"
                /\ UNCHANGED <<inflight, db, characters, selectedCharacter,
                               spellSelectionCharacter>>]_vars

\* a confirmed add has just been turned down for want of a session
C6_Witness ==
    /\ tab = "characters" /\ ~session
    /\ alerts = <<Alert("Erro", "Voce precisa estar autenticado.")>>
    /\ inflight = <<>>
    /\ Len(characters) > 0

\* C7: a response that arrives after the detail view was dismissed, or switched
\* to another character, leaves the detail view as it is.
C7_LateResponseNotApplied ==
    [][\A i \in 1..Len(inflight), outcome \in Outcomes :
          (/\ updateSpellSlotResponse(i, outcome)
           /\ \/ selectedCharacter = null
              \/ selectedCharacter.character.id # inflight[i].cid)
          => selectedCharacter' = selectedCharacter]_vars

\* C8: once the add was confirmed and the modal closed, the success response of
\* the update request leaves the spell-selection character null.
C8_ModalStaysClosed ==
    [][\A i \in 1..Len(inflight) :
          (handleAddSpellsResponse(i, "ok") /\ spellSelectionCharacter = null)
          => spellSelectionCharacter' = null]_vars

\* C9: an updateSpellSlot issued while another request is in flight is sent at
\* once and leaves the earlier request in flight; a successful response is applied
\* whatever else is in flight, and answers nothing but its own request, so after
\* two overlapping requests the detail and the list entry carry the slots of the
\* response that arrived last.
C9_LastResponseWins ==
    [][/\ \A level \in AdjustLevels, type \in {"current", "max"}, delta \in Deltas :
             sendsUpdate(level, type, delta) =>
                 /\ Len(inflight') = Len(inflight) + 1
                 /\ SubSeq(inflight', 1, Len(inflight)) = inflight
       /\ \A i \in 1..Len(inflight) :
             updateSpellSlotResponse(i, "ok") =>
                 /\ Len(inflight') = Len(inflight) - 1
                 /\ \A j \in 1..Len(inflight') :
                        inflight'[j] = inflight[IF j < i THEN j ELSE j + 1]
                 /\ selectedCharacter'.character.id = inflight[i].cid
                 /\ selectedCharacter'.character.spell_slots = inflight[i].body
                 /\ \A j \in 1..Len(characters') :
                        characters'[j].id = inflight[i].cid =>
                            characters'[j].spell_slots = inflight[i].body]_vars

\* two requests with different slots are in flight for the displayed character
C9_Witness ==
    /\ tab = "grimoire" /\ selectedCharacter # null
    /\ Len(inflight) = 2
    /\ inflight[1].kind = "PUT_slots" /\ inflight[2].kind = "PUT_slots"
    /\ inflight[1].cid = selectedCharacter.character.id
    /\ inflight[2].cid = selectedCharacter.character.id
    /\ inflight[1].body # inflight[2].body

\* C10: the entries one call of handleAddSpellsToGrimoire appends to spells_known
\* carry pairwise different names.
C10_AppendedNamesDistinct ==
    [][(performAdd /\ Len(inflight') > Len(inflight)) =>
          LET body == inflight'[Len(inflight')].body
              appended == (Len(dialog.character.spells_known) + 1)..Len(body)
          IN  \A a, b \in appended :
                  a # b => knownSpellName(body[a]) # knownSpellName(body[b])]_vars

\* the name of a known-spell entry, bare or object
entryName(entry) == IF "str" \in DOMAIN entry THEN entry.str ELSE entry.name

\* the passed spells whose name no entry of known carries, in passed order
RECURSIVE notKnown(_, _)
notKnown(spells, known) ==
    IF spells = <<>> THEN <<>>
    ELSE (IF \E k \in 1..Len(known) : entryName(known[k]) = Head(spells).name
          THEN <<>> ELSE <<Head(spells)>>)
         \o notKnown(Tail(spells), known)

\* C11: with a session, handleAddSpellsToGrimoire sends at most one update request;
\* its spells_known is the character's known entries, unchanged and in order,
\* followed by one {name, level} entry per passed spell whose name is not known
\* (bare or object entry), so no known name is written again; when every passed
\* spell is known it sends nothing and raises one notice.
C11_AppendsOnlyUnknown ==
    [][(performAdd /\ session) =>
          LET known == dialog.character.spells_known
              fresh == notKnown(dialog.spellsToAdd, known)
          IN  IF fresh = <<>>
              THEN /\ inflight' = inflight
                   /\ Len(alerts') = 1 /\ alerts'[1].title = "Aviso"
              ELSE /\ Len(inflight') = Len(inflight) + 1
                   /\ SubSeq(inflight', 1, Len(inflight)) = inflight
                   /\ LET r == inflight'[Len(inflight')]
                      IN  /\ r.kind = "PUT_spells" /\ r.cid = dialog.character.id
                          /\ Len(r.body) = Len(known) + Len(fresh)
                          /\ SubSeq(r.body, 1, Len(known)) = known
                          /\ \A j \in 1..Len(fresh) :
                                r.body[Len(known) + j] =
                                    [name |-> fresh[j].name, level |-> fresh[j].level]
                          /\ \A j \in 1..Len(fresh), k \in 1..Len(known) :
                                r.body[Len(known) + j].name # entryName(known[k])]_vars

\* the request for c1, who knows the bare name Bola de Fogo, carries that entry
\* followed by one new entry, and all of it reached the store
C11_Witness ==
    /\ tab = "characters"
    /\ indexOf(db, "c1") # 0
    /\ db[indexOf(db, "c1")].spells_known =
           <<[str |-> BolaDeFogo], [name |-> Escudo, level |-> 1]>>

\* the class C is absent or has no name
nameless(C) == C = null \/ "name" \notin DOMAIN C \/ C.name = <<>>

\* spell has an eligible-class entry equal to C's name after trimming and
\* ignoring case, or an eligible-subclass entry equal, ignoring case, to one of
\* C's subclasses, a bare name or an object with a name
eligible(spell, C) ==
    \/ \E e \in Range(spell.classes) : toLowerCase(trim(e)) = toLowerCase(C.name)
    \/ \E e \in Range(spell.subclasses), sc \in Range(C.subclasses) :
          \/ "str" \in DOMAIN sc /\ toLowerCase(sc.str) = toLowerCase(e)
          \/ "str" \notin DOMAIN sc /\ sc.name # <<>> /\ toLowerCase(sc.name) = toLowerCase(e)

\* the eligible spells of a dataset, in dataset order
catalogOf(C, dataset) ==
    SelectSeqBy(dataset, {spell \in Range(dataset) : eligible(spell, C)})

\* the dataset a finished classSpells call read
datasetRead ==
    CASE result.from = "custom" -> call.storedSpells.spells
      [] result.from = "adapted" -> call.adapted.spells
      [] result.from = "default" -> SpellsData
      [] result.from = "none" -> <<>>

classSpellsReturned == call.fn = "classSpells" /\ returned

\* C12: for a class with a name, every spell of the catalog is eligible for the
\* class (class entry equal to the name after trimming and ignoring case, or
\* subclass entry equal ignoring case to a subclass of the class), it is a spell
\* of the loaded dataset, and every eligible spell of the loaded dataset is in
\* the catalog.
C12_CatalogIsEligibleSpells ==
    (classSpellsReturned /\ ~nameless(call.characterClass)) =>
        LET C == call.characterClass
            catalog == result.returned
        IN  /\ \A spell \in Range(catalog) : eligible(spell, C) /\ spell \in Range(datasetRead)
            /\ \A spell \in Range(datasetRead) : eligible(spell, C) => spell \in Range(catalog)

\* the Clerigo catalog of the custom list is the spell matched through the
\* subclass object Luz
C12_Witness ==
    /\ classSpellsReturned
    /\ ~nameless(call.characterClass) /\ call.characterClass.name = Clerigo
    /\ result.from = "custom"
    /\ result.returned = <<CustomSpells[2]>>

\* C13: when the class is absent or has no name, classSpells returns the empty
\* list and reads no dataset, whatever the custom store and the adapter hold.
C13_NamelessClassEmptyCatalog ==
    (classSpellsReturned /\ nameless(call.characterClass)) =>
        result.returned = <<>> /\ result.from = "none"

\* the empty object of CharactersTab, with a custom list stored
C13_Witness ==
    /\ classSpellsReturned
    /\ call.characterClass = emptyObject
    /\ call.storedSpells = [spells |-> CustomSpells]
    /\ result.returned = <<>>

\* the custom store holds no spell list, or an empty one
noCustomSpells ==
    "absent" \in DOMAIN call.storedSpells
        \/ ("spells" \in DOMAIN call.storedSpells /\ call.storedSpells.spells = <<>>)

\* the adapter yields a non-empty list
adaptedAvailable == "spells" \in DOMAIN call.adapted /\ call.adapted.spells # <<>>

\* the catalog is built from the adapted list when there is one, from
\* data/spells.json otherwise
builtFromAdaptedOrBaseline ==
    LET C == call.characterClass
    IN  IF adaptedAvailable
        THEN result.from = "adapted" /\ result.returned = catalogOf(C, call.adapted.spells)
        ELSE result.from = "default" /\ result.returned = catalogOf(C, SpellsData)

\* C14 as stated: for a class with a name, the catalog is built from the
\* adapted spells when the alternate dataset adapts to a non-empty list, and
\* from the baseline dataset when loading or adapting fails or yields nothing.
C14_AdaptedElseBaseline ==
    (classSpellsReturned /\ ~nameless(call.characterClass)) => builtFromAdaptedOrBaseline

\* C14 amended: the same, when no custom spell list is stored or the stored
\* list is empty.
C14_AdaptedElseBaselineWithoutCustom ==
    (classSpellsReturned /\ ~nameless(call.characterClass) /\ noCustomSpells) =>
        builtFromAdaptedOrBaseline

\* Clerigo with an empty stored list and the adapted list: the catalog is the
\* adapted spell of the class
C14_Witness ==
    /\ classSpellsReturned
    /\ ~nameless(call.characterClass) /\ call.characterClass.name = Clerigo
    /\ call.storedSpells = [spells |-> <<>>]
    /\ result.from = "adapted"
    /\ result.returned = <<AdaptedSpells[1]>>

filterReturned == call.fn = "filteredAndSortedSpells" /\ returned

\* q occurs in text as a contiguous run of characters, ignoring case
containsIgnoringCase(text, q) ==
    \E k \in 0..(Len(text) - Len(q)) :
        \A i \in 1..Len(q) : Lower(text[k + i]) = Lower(q[i])

sameIgnoringCase(a, b) ==
    Len(a) = Len(b) /\ \A i \in 1..Len(a) : Lower(a[i]) = Lower(b[i])

\* the catalog spells a search text and a school select, the school of a
\* spell being compared as schoolOf(spell)
selectedBy(catalog, text, school, schoolOf(_)) ==
    {spell \in Range(catalog) :
        /\ containsIgnoringCase(spell.name, text)
        /\ school # null => sameIgnoringCase(schoolOf(spell), school.str)}

schoolAsWritten(spell) == spell.school
schoolTrimmed(spell) == trim(spell.school)

C16_SortedByLevelThenName ==
    filterReturned =>
        LET sorted == result.returned
        IN  /\ \A i, j \in 1..Len(sorted) : i < j =>
                  /\ sorted[i].level <= sorted[j].level
                  /\ sorted[i].level = sorted[j].level =>
                        localeCompare(sorted[i].name, sorted[j].name) <= 0
            /\ Len(sorted) = Len(result.filtered)
            /\ \A spell \in Range(result.filtered) :
                  Cardinality({i \in 1..Len(sorted) : sorted[i] = spell}) =
                  Cardinality({i \in 1..Len(result.filtered) : result.filtered[i] = spell})

\* the catalog Bola de Fogo, Escudo, escudo, Bless comes back as
\* Bless (0), escudo, Escudo (1), Bola de Fogo (3)
C16_Witness ==
    /\ filterReturned
    /\ Len(call.classSpells) = 4
    /\ <<call.classSpells[1].id, call.classSpells[2].id,
         call.classSpells[3].id, call.classSpells[4].id>> = <<"f1", "f3", "f2", "f4">>
    /\ Len(result.returned) = 4
    /\ <<result.returned[1].id, result.returned[2].id,
         result.returned[3].id, result.returned[4].id>> = <<"f4", "f2", "f3", "f1">>

listReturned == call.fn = "listItems" /\ returned

headersOf(items) == SelectSeqBy(items, {item \in Range(items) : item.type = "header"})
spellRowsOf(items) == SelectSeqBy(items, {item \in Range(items) : item.type = "spell"})

\* the rows that are not spell rows of the level
withoutRowsOf(items, level) ==
    SelectSeqBy(items, {item \in Range(items) :
                           item.type = "header" \/ item.spell.level # level})

\* the headers are the levels present in the list, each once, ascending; the
\* spell rows are the spells of expanded levels in list order; the nearest
\* header before a spell row is the header of its level
wellFormedItems(items, spells, expanded) ==
    LET headers == headersOf(items)
        rows == spellRowsOf(items)
        shownRows == SelectSeqBy(spells, {spell \in Range(spells) : spell.level \in expanded})
    IN  /\ {headers[i].level : i \in 1..Len(headers)} =
              {spells[i].level : i \in 1..Len(spells)}
        /\ \A i, j \in 1..Len(headers) : i < j => headers[i].level < headers[j].level
        /\ [i \in 1..Len(rows) |-> rows[i].spell] = shownRows
        /\ \A i \in 1..Len(items) : items[i].type = "spell" =>
              \E h \in 1..(i - 1) :
                  /\ items[h].type = "header" /\ items[h].level = items[i].spell.level
                  /\ \A k \in (h + 1)..(i - 1) : items[k].type = "spell"

\* C17: for every sorted filtered list and every set of expanded levels,
\* listItems has exactly one header per level present in the list, ascending and
\* whatever the expansion state, and a spell row exactly for the spells of
\* expanded levels, each after the header of its level and in list order;
\* toggling the expansion of a level changes only the spell rows of that level.
C17_HeadersAndRows ==
    /\ [](listReturned =>
             wellFormedItems(result.returned, call.filteredAndSortedSpells,
                             call.expandedLevels))
    /\ [][(listReturned /\ call' # call) =>
             \E level \in 0..9 :
                 /\ call'.expandedLevels = toggledLevels(call.expandedLevels, level)
                 /\ withoutRowsOf(result'.returned, level) =
                        withoutRowsOf(result.returned, level)]_vars

\* level 1 collapsed by a toggle from the initial expansion: the four pool
\* spells show three headers, Bless and Bola de Fogo
C17_Witness ==
    /\ listReturned
    /\ call.expandedLevels = (0..9) \ {1}
    /\ Len(call.filteredAndSortedSpells) = 4
    /\ Len(result.returned) = 5
    /\ result.returned[3].type = "header" /\ result.returned[3].level = 1
    /\ result.returned[4].type = "header" /\ result.returned[4].level = 3

\* the selection with the membership of id flipped
flipped(selection, id) ==
    {other \in selection \cup {id} : other = id => id \notin selection}

\* C18: toggleSpellSelection(id) flips the membership of id in the selection
\* and leaves every other id as it was; the same flip applied to the new
\* selection gives the old one back.
C18_ToggleFlipsOne ==
    [][\A id \in SpellIds : toggleSpellSelection(id) =>
          /\ (id \in selectedSpells') # (id \in selectedSpells)
          /\ \A other \in SpellIds \ {id} :
                (other \in selectedSpells') = (other \in selectedSpells)
          /\ selectedSpells' = flipped(selectedSpells, id)
          /\ flipped(selectedSpells', id) = selectedSpells]_vars

\* only a toggle leaves exactly one of the two Escudo spells selected
C18_Witness ==
    /\ tab = "characters" /\ modalOpen
    /\ selectedSpells = {"s3"}

\* the ids of the filtered list the modal shows
shownIds == LET shown == shownUnsorted IN {shown[i].id : i \in 1..Len(shown)}

\* C19: handleSelectAll makes the selection exactly the ids of the current
\* filtered list unless the selection already is that set, and empties it only
\* then; from the empty selection two consecutive calls give the empty
\* selection back.
C19_SelectAllIsFullSetToggle ==
    [][handleSelectAll =>
          selectedSpells' = IF selectedSpells = shownIds THEN {} ELSE shownIds]_vars

\* the state of the modal as it is after construction
modalStateReset ==
    /\ selectedSpells = {}
    /\ searchText = <<>>
    /\ selectedSchool = null
    /\ expandedLevels = 0..9

\* C20: each step after which the modal is no longer visible (close button,
\* confirmed commit, spell-selection character cleared) leaves the selection
\* empty, the search text empty, the school null and levels 0..9 expanded, and
\* each step that shows the modal again shows it in that state.
C20_ResetWhenDismissed ==
    [][/\ (spellSelectionCharacter # null /\ spellSelectionCharacter' = null) =>
              modalStateReset'
       /\ (spellSelectionCharacter = null /\ spellSelectionCharacter' # null) =>
              modalStateReset']_vars

\* the modal shown again, untouched, while the commit made from it is still
\* in flight
C20_Witness ==
    /\ tab = "characters" /\ modalOpen
    /\ \E i \in 1..Len(inflight) :
          inflight[i].kind = "PUT_spells" /\ inflight[i].cid = spellSelectionCharacter.id
    /\ modalStateReset

prepareReturned == call.fn = "prepareCharacterSpells" /\ returned

\* the catalog spell a name resolves to is the first one carrying that name
resolvesTo(wanted, spell) ==
    \E i \in 1..Len(SpellsData) :
        /\ SpellsData[i] = spell /\ spell.name = wanted
        /\ \A j \in 1..(i - 1) : SpellsData[j].name # wanted

occurrences(list, x) == Cardinality({i \in 1..Len(list) : list[i] = x})

\* C21: prepareCharacterSpells resolves every known-spell entry, a bare name or
\* an object, to the catalog spell of that name and drops the entries that
\* name no catalog spell; each resolved spell is listed in spellsByLevel under
\* its own level, once per entry resolving to it, and under no other level; a
\* level without resolved spells has no key; each level's list is in
\* non-decreasing name order.
C21_SpellsByLevel ==
    prepareReturned =>
        LET known == call.character.spells_known
            byLevel == result.returned.spellsByLevel
            entriesFor(spell) ==
                {i \in 1..Len(known) : resolvesTo(entryName(known[i]), spell)}
        IN  /\ \A spell \in Range(SpellsData) :
                  /\ entriesFor(spell) # {} =>
                        /\ spell.level \in DOMAIN byLevel
                        /\ occurrences(byLevel[spell.level], spell) =
                               Cardinality(entriesFor(spell))
                  /\ \A l \in DOMAIN byLevel :
                        (l # spell.level \/ entriesFor(spell) = {}) =>
                            occurrences(byLevel[l], spell) = 0
            /\ \A l \in DOMAIN byLevel :
                  /\ byLevel[l] # <<>>
                  /\ \A i \in 1..Len(byLevel[l]) :
                        byLevel[l][i] \in Range(SpellsData) /\ byLevel[l][i].level = l
                  /\ \A i, j \in 1..Len(byLevel[l]) : i < j =>
                        localeCompare(byLevel[l][i].name, byLevel[l][j].name) <= 0

\* known spells Escudo (an object), an unknown name and Bless (a bare name):
\* level 1 alone has a key and lists Bless before Escudo
C21_Witness ==
    /\ prepareReturned
    /\ call.character.spells_known =
           <<[name |-> Escudo, level |-> 1], [str |-> Unknown], [str |-> Bless]>>
    /\ DOMAIN result.returned.spellsByLevel = {1}
    /\ result.returned.spellsByLevel[1] = <<SpellsData[5], SpellsData[3]>>

addHandlerAlerts ==
    {Alert("Erro", "Nenhum personagem selecionado."),
     Alert("Erro", "Voce precisa estar autenticado."),
     Alert("Aviso", "Todas as magias selecionadas ja estao no grimorio do personagem.")}

\* the step ran onAddSpells: it sent the PUT or raised one of the handler's alerts
onAddSpellsCalled ==
    \/ /\ Len(inflight') = Len(inflight) + 1
       /\ inflight'[Len(inflight')].kind = "PUT_spells"
    \/ /\ alerts' # <<>>
       /\ alerts'[1] \in addHandlerAlerts

\* C23: onAddSpells runs only in a step that confirms the open confirmation
\* dialog; handleAddSelectedSpells with an empty selection opens no dialog and
\* does not run it; cancelling the dialog does not run it, keeps the modal open
\* and keeps the selection.
C23_AddOnlyAfterConfirmation ==
    [][/\ onAddSpellsCalled => (dialog # null /\ dialog' = null)
       /\ (handleAddSelectedSpells /\ selectedSpells = {}) =>
              (dialog' = null /\ ~onAddSpellsCalled)
       /\ cancelAdd =>
              /\ ~onAddSpellsCalled
              /\ spellSelectionCharacter' # null
              /\ spellSelectionCharacter' = spellSelectionCharacter
              /\ selectedSpells' = selectedSpells]_vars

\* a commit confirmed in the dialog: its request is in flight and the modal
\* is closed
C23_Witness ==
    /\ tab = "characters"
    /\ dialog = null /\ spellSelectionCharacter = null
    /\ \E i \in 1..Len(inflight) :
          /\ inflight[i].kind = "PUT_spells"
          /\ inflight[i].body[Len(inflight[i].body)].name = Escudo

\* what the claim asks of the step that handles the answer to the deletion of
\* the character cid
deletionHandled(cid, succeeded) ==
    IF succeeded
    THEN /\ indexOf(characters', cid) = 0
         /\ selectedCharacter' # null => selectedCharacter'.id # cid
         /\ spellSelectionCharacter' # null => spellSelectionCharacter'.id # cid
         /\ alerts' # <<>> /\ alerts'[1].title = "Sucesso"
    ELSE /\ characters' = characters
         /\ selectedCharacter' = selectedCharacter
         /\ spellSelectionCharacter' = spellSelectionCharacter
         /\ alerts' # <<>> /\ alerts'[1].title = "Erro"

\* C24: when the store reports that the deletion succeeded, the character is
\* removed from the list, a detail view or spell selection showing it is closed
\* and a success message is shown; when the store reports an error, the list
\* and the selected characters are unchanged and an error message is shown.
C24_DeleteUpdatesLocalState ==
    [][\A i \in 1..Len(inflight), outcome \in Outcomes :
          (handleDeleteResponse(i, outcome) \/ handleDeleteCopyResponse(i, outcome)) =>
              deletionHandled(inflight[i].cid, outcome = "ok")]_vars

\* the entry of the store's list with the id of the selected character, or null
fetchedEntry(list, selected) ==
    IF indexOf(list, selected.id) # 0 THEN list[indexOf(list, selected.id)] ELSE null

\* C25: when the fetch of a manual refresh succeeds, the list becomes the
\* store's list and an open detail shows the fetched entry with its id, or is
\* closed when there is none; when the fetch fails or throws, the list and the
\* selected character are unchanged.
C25_RefreshReconciles ==
    [][\A i \in 1..Len(inflight), outcome \in Outcomes :
          (refreshing /\ loadCharactersResponse(i, outcome)) =>
              IF outcome = "ok"
              THEN /\ characters' = db
                   /\ selectedCharacter' =
                          IF selectedCharacter = null THEN null
                          ELSE fetchedEntry(db, selectedCharacter)
              ELSE /\ characters' = characters
                   /\ selectedCharacter' = selectedCharacter]_vars

\* the update requests of the displayed character that no response has answered yet
overlapping ==
    {i \in 1..Len(inflight) :
        /\ inflight[i].kind = "PUT_slots"
        /\ selectedCharacter # null
        /\ inflight[i].cid = selectedCharacter.character.id}

\* C26: an updateSpellSlot call issued while another update of the same character
\* is unanswered computes its mapping from the displayed snapshot, which the
\* unanswered request has not changed, so the two requests carry one adjustment
\* each; a success response persists and displays the mapping of its own request
\* alone, so two overlapping +1 adjustments of 'current' on one level end with the
\* initial value plus 1.
C26_OverlappingUpdatesLoseOne ==
    [][/\ \A level \in AdjustLevels, type \in {"current", "max"}, delta \in Deltas :
             (sendsUpdate(level, type, delta) /\ overlapping # {}) =>
                 /\ inflight'[Len(inflight')].body =
                        updatedSlots(selectedCharacter.character.spell_slots,
                                     level, type, delta)
                 /\ selectedCharacter' = selectedCharacter
                 /\ db' = db
                 /\ \A i \in overlapping :
                       inflight[i].body =
                           updatedSlots(selectedCharacter.character.spell_slots,
                                        level, type, delta) =>
                               inflight'[Len(inflight')].body = inflight[i].body
       /\ \A i \in 1..Len(inflight) :
             (updateSpellSlotResponse(i, "ok") /\ i \in overlapping) =>
                 /\ selectedCharacter'.character.spell_slots = inflight[i].body
                 /\ \E k \in 1..Len(db') :
                       /\ db'[k].id = inflight[i].cid
                       /\ db'[k].spell_slots = inflight[i].body]_vars

\* two overlapping +1 adjustments of 'current' on level 1, with room below max: the
\* first has been answered and the second is about to be; both carry initial + 1
C26_Witness ==
    /\ tab = "grimoire" /\ selectedCharacter # null
    /\ Len(inflight) = 1 /\ overlapping = {1}
    /\ inflight[1].body["1"] = <<1, 2>>
    /\ shownPair(1) = <<1, 2>>
    /\ \E k \in 1..Len(db) :
          db[k].id = inflight[1].cid /\ db[k].spell_slots["1"] = <<1, 2>>

\* the same two adjustments before either response arrives
C26_WitnessBothInFlight ==
    /\ tab = "grimoire" /\ selectedCharacter # null
    /\ Len(inflight) = 2 /\ overlapping = {1, 2}
    /\ inflight[1].body = inflight[2].body
    /\ inflight[1].body["1"][1] = shownPair(1)[1] + 1
    /\ shownPair(1)[1] < shownPair(1)[2]

\* the positions of the current filtered list whose spell is selected
pickedPositions ==
    LET shown == shownSpells
    IN  {i \in 1..Len(shown) : shown[i].id \in selectedSpells}

\* the selected ids that the current filter hides
hiddenSelection == selectedSpells \ shownIds

\* C27: the spells handed to onAddSpells on a confirmed commit are the spells of
\* the current filtered list whose id is selected, each once and in the order of
\* that list, whether their level is expanded or collapsed; a selected id the
\* filter hides is not among them, and the count on the confirm button is the
\* size of the selection, hidden ids included.
C27_CommitsFilteredSelection ==
    [][/\ (handleAddSelectedSpells /\ selectedSpells # {}) =>
              LET shown == shownSpells
                  picked == pickedPositions
                  passed == dialog'.spellsToAdd
              IN  /\ Len(passed) = Cardinality(picked)
                  /\ \A i \in picked :
                        passed[Cardinality({j \in picked : j <= i})] = shown[i]
                  /\ \A k \in 1..Len(passed) : passed[k].id \notin hiddenSelection
                  /\ confirmButtonCount = Len(passed) + Cardinality(hiddenSelection)
       /\ performAdd =>
              LET called == handleAddSpellsToGrimoire(dialog.character, dialog.sel,
                                                      dialog.spellsToAdd)
              IN  alerts' = called[1] /\ inflight' = inflight \o called[2]
       /\ (dialog # null /\ dialog' # null) => dialog'.spellsToAdd = dialog.spellsToAdd]_vars

\* the confirmation dialog is open for a selection of which the search text hides
\* one spell and a collapsed level holds another, which is passed
C27_Witness ==
    /\ tab = "characters" /\ dialog # null
    /\ hiddenSelection # {}
    /\ Len(dialog.spellsToAdd) < confirmButtonCount
    /\ \E k \in 1..Len(dialog.spellsToAdd) :
          dialog.spellsToAdd[k].level \notin expandedLevels

\* the catalog of the spell selection modal
modalCatalog ==
    classSpells(characterClassProp, noStoredSpells, noLivroDoJogador, SpellsData)

\* C28: in every reachable state the selected school of the spell selection
\* modal is null, so the filtered list holds every catalog spell whose name
\* contains the search text, whatever its school.
C28_SchoolAlwaysNull ==
    /\ selectedSchool = null
    /\ (tab = "characters" /\ spellSelectionCharacter # null) =>
           Range(shownUnsorted) =
               {spell \in Range(modalCatalog) :
                   containsIgnoringCase(spell.name, searchText)}

\* the modal in use, with a selection made, showing spells of two schools
C28_Witness ==
    /\ tab = "characters" /\ modalOpen
    /\ selectedSpells # {}
    /\ alerts = <<>>
    /\ \E a, b \in Range(shownUnsorted) : a.school # b.school

\* a fetch of the character list is awaited
listAwaited == \E i \in 1..Len(inflight) : inflight[i].kind = "GET_list"

\* C29: when every awaited call returns or throws, a manual refresh ends with
\* the refreshing flag and the loading flag both false on either screen: without
\* a session the refresh step itself leaves both false, with a session the flag
\* is raised while the fetch is awaited and every answer to the fetch (success,
\* non-success response, thrown error) lowers both, and the answer comes.
C29_RefreshEnds ==
    /\ [][/\ (handleRefresh \/ grimoireRefresh) =>
                 IF session THEN refreshing' /\ listAwaited'
                 ELSE ~refreshing' /\ ~loading'
          /\ \A i \in 1..Len(inflight), outcome \in Outcomes :
                 (loadCharactersResponse(i, outcome) \/ grimoireLoadResponse(i, outcome)) =>
                     ~refreshing' /\ ~loading']_vars
    /\ [](refreshing => listAwaited)
    /\ (refreshing ~> (~refreshing /\ ~loading))

\* a manual refresh of a loaded list is awaiting its fetch
C29_Witness ==
    /\ refreshing /\ ~loading
    /\ listAwaited
    /\ characters # <<>>

\* the share token and the expiry a character carries
tokenValues(char) == <<char.share_token, char.token_expires_at>>

\* what the claim asks of the step in which a token handler called with cid ends
shareHandled(cid, succeeded, token, expires) ==
    IF succeeded
    THEN /\ Len(characters') = Len(characters)
         /\ \A k \in 1..Len(characters) :
               IF characters[k].id = cid
               THEN /\ tokenValues(characters'[k]) = <<token, expires>>
                    /\ characters'[k].id = cid
               ELSE characters'[k] = characters[k]
         /\ (selectedCharacter' # null /\ selectedCharacter'.id = cid) =>
               \A k \in 1..Len(characters') :
                   characters'[k].id = cid =>
                       tokenValues(selectedCharacter') = tokenValues(characters'[k])
         /\ "throws" \notin DOMAIN result'
    ELSE /\ result' = [throws |-> TRUE]
         /\ characters' = characters
         /\ selectedCharacter' = selectedCharacter

\* C30: a successful handleGenerateToken(id) leaves the list entry with that id
\* carrying the returned token and expiry, a successful handleRevokeToken(id)
\* leaves it carrying null for both; the other entries are unchanged and a
\* detail view showing that character carries the token values of the list
\* entry; without a session or on a non-success answer the handler throws and
\* the list and the detail view are unchanged.
C30_TokenReflectedInListAndDetail ==
    [][/\ \A i \in 1..Len(inflight), outcome \in Outcomes, answer \in ShareAnswers :
             handleGenerateTokenResponse(i, outcome, answer) =>
                 /\ shareHandled(inflight[i].cid, outcome = "ok",
                                 answer.share_token, answer.expires_at)
                 /\ outcome = "ok" => result' = [returned |-> answer]
       /\ \A i \in 1..Len(inflight), outcome \in Outcomes :
             handleRevokeTokenResponse(i, outcome) =>
                 shareHandled(inflight[i].cid, outcome = "ok", null, null)
       /\ \A k \in 1..Len(characters) :
             ((handleGenerateToken(characters[k].id) \/ handleRevokeToken(characters[k].id))
                 /\ ~session) =>
                 shareHandled(characters[k].id, FALSE, null, null)]_vars

\* the detail view of c1 is open after a token was generated for it, and the
\* list entry and the view carry that token
C30_Witness ==
    /\ tab = "characters"
    /\ selectedCharacter # null /\ selectedCharacter.id = "c1"
    /\ "returned" \in DOMAIN result
    /\ "share_token" \in DOMAIN result.returned
    /\ tokenValues(selectedCharacter) =
           <<result.returned.share_token, result.returned.expires_at>>
    /\ \E k \in 1..Len(characters) :
          /\ characters[k].id = "c1"
          /\ tokenValues(characters[k]) = tokenValues(selectedCharacter)

\* the detail view was closed and another character opened while a token
\* request was awaited: the view carries the token values of the request's
\* character, which the list entry of the character it shows does not
C30_OtherDetailTakesToken ==
    /\ tab = "characters"
    /\ selectedCharacter # null
    /\ \E k \in 1..Len(characters) :
          /\ characters[k].id = selectedCharacter.id
          /\ tokenValues(characters[k]) # tokenValues(selectedCharacter)
====
